---- MODULE Spec2Model ----
(***************************************************************************)
(* Visual-Time-Series Reasoning Pipeline: the Ollama VLM client            *)
(* (vlm_integration/vlm_client.py) and the dashboard views that drive it   *)
(* (dashboard/views.py).                                                   *)
(*                                                                         *)
(* Text is a sequence of tokens.  Data the code inspects character by      *)
(* character (model names, backend response text) is spelled one character *)
(* per token; the fixed literals of a message are one token each.          *)
(***************************************************************************)
EXTENDS Integers, Sequences, FiniteSets, TLC

VARIABLES
    model,      \* OllamaVLMClient.model, set at construction
    disk,       \* image path -> state of the file behind it
    db,         \* Snapshot table: row i is the record with id i
    pc,         \* position of the invocation in flight
    call,       \* the client operation in flight: [op, path]
    req,        \* the web request in flight
    snap,       \* id of the snapshot the view resolved (0: none)
    seen,       \* the state the view found the image file in ("unchecked": never looked)
    avail,      \* what is_available() returned in this invocation
    encoded,    \* what encode_image() returned in this invocation
    result,     \* what the client operation returned
    raised,     \* TRUE when an exception escaped the operation
    resp,       \* the JsonResponse of the view
    net,        \* requests sent to the backend in this invocation, in order
    lastGet,    \* transport outcome of the last GET /api/tags
    lastPost,   \* transport outcome of the last POST /api/generate
    pilAvailable,   \* PIL_AVAILABLE of image_processor.py
    dirExists,      \* whether ImageProcessor.snapshots_dir exists
    files,          \* file name -> the file of that name in snapshots_dir
    proc,           \* caller -> its ImageProcessor call in flight
    clock,          \* the time new files are stamped with
    args,           \* what the client operation in flight was called with
    payload,        \* the "prompt" of the payload of the last POST /api/generate
    config,         \* host, timeout and endpoint URLs of the client
    default_client, \* vlm_client._default_client: 0 for None, else the instance
    constructed,    \* how many OllamaVLMClient instances get_vlm_client has made
    thread          \* thread -> its get_vlm_client or analyze_image call in flight

clientVars == <<model, disk, db, pc, call, req, snap, seen, avail, encoded, result,
                raised, resp, net, lastGet, lastPost>>

imageVars == <<pilAvailable, dirExists, files, proc, clock>>

promptVars == <<args, payload>>

processVars == <<config, default_client, constructed, thread>>

vars == <<clientVars, imageVars, promptVars, processVars>>

(***************************************************************************)
(* Bounds                                                                  *)
(***************************************************************************)
MaxListed == 2        \* entries in the backend's model listing
MaxSnapshots == 2     \* rows in the Snapshot table
MaxText == 2          \* characters in a backend response text
MaxTime == 2          \* ticks of the clock that stamps files

(***************************************************************************)
(* Python values and string operations                                     *)
(***************************************************************************)
None == <<"<None>">>

\* bool(x) of a str-or-None value
Truthy(t) == t # None /\ t # <<>>

\* a in b, for strings
Contains(b, a) ==
    \E i \in 1..(Len(b) + 1) :
        /\ i + Len(a) - 1 <= Len(b)
        /\ SubSeq(b, i, i + Len(a) - 1) = a

\* x in xs, for lists
InList(x, xs) == \E i \in DOMAIN xs : xs[i] = x

\* s.split(":")[0]
RECURSIVE BeforeColon(_)
BeforeColon(s) ==
    IF s = <<>> \/ Head(s) = ":" THEN <<>>
    ELSE <<Head(s)>> \o BeforeColon(Tail(s))

IsSpace(c) == c = " "

RECURSIVE LStrip(_)
LStrip(s) == IF s # <<>> /\ IsSpace(Head(s)) THEN LStrip(Tail(s)) ELSE s

RECURSIVE RStrip(_)
RStrip(s) ==
    IF s # <<>> /\ IsSpace(s[Len(s)]) THEN RStrip(SubSeq(s, 1, Len(s) - 1))
    ELSE s

\* s.strip()
Strip(s) == RStrip(LStrip(s))

Digit(d) == CASE d = 0 -> "0" [] d = 1 -> "1" [] d = 2 -> "2" [] d = 3 -> "3"
              [] d = 4 -> "4" [] d = 5 -> "5" [] d = 6 -> "6" [] d = 7 -> "7"
              [] d = 8 -> "8" [] d = 9 -> "9"

\* str(n) of a non-negative int
RECURSIVE Str(_)
Str(n) == IF n < 10 THEN <<Digit(n)>> ELSE Str(n \div 10) \o <<Digit(n % 10)>>

\* str(xs) of a list of strings: ['a', 'b']
RECURSIVE ReprItems(_)
ReprItems(xs) ==
    IF xs = <<>> THEN <<>>
    ELSE <<"'">> \o Head(xs) \o <<"'">>
         \o (IF Len(xs) > 1 THEN <<", ">> ELSE <<>>) \o ReprItems(Tail(xs))

Repr(xs) == <<"[">> \o ReprItems(xs) \o <<"]">>

\* [f(x) for x in xs]
BareNames(names) == [i \in DOMAIN names |-> BeforeColon(names[i])]

(***************************************************************************)
(* Model names the backend may list and the client may be configured with  *)
(***************************************************************************)
Llava == <<"l", "l", "a", "v", "a">>
Bakllava == <<"b", "a", "k">> \o Llava
Mistral == <<"m", "i", "s", "t", "r", "a", "l">>
TagLatest == <<":", "l", "a", "t", "e", "s", "t">>
Tag7b == <<":", "7", "b">>

DEFAULT_MODEL == Llava

Bases == {Llava, Bakllava, Mistral}
ModelNames == Bases \cup {b \o t : b \in Bases, t \in {TagLatest, Tag7b}}

\* m.get("name", "") of a listing entry: an entry without a name reads ""
ListedNames == ModelNames \cup {<<>>}

RECURSIVE SeqsUpTo(_, _)
SeqsUpTo(S, n) ==
    IF n = 0 THEN {<<>>}
    ELSE LET shorter == SeqsUpTo(S, n - 1)
         IN  shorter \cup {Append(s, x) : s \in {t \in shorter : Len(t) = n - 1}, x \in S}

Listings == SeqsUpTo(ListedNames, MaxListed)

(***************************************************************************)
(* Transport: what urlopen does, and what requests.get / requests.post     *)
(* make of it                                                              *)
(***************************************************************************)
NoBody == [kind |-> "none", models |-> <<>>, response |-> None, error |-> None]

\* the body of a reply to GET /api/tags
TagsBodies ==
    {[kind |-> "object", models |-> l, response |-> None, error |-> None] : l \in Listings}
    \cup {[kind |-> k, models |-> <<>>, response |-> None, error |-> None] :
            k \in {"invalid", "array"}}

HttpReply(status, body) == [t |-> "response", status |-> status, body |-> body, reason |-> ""]
HttpError(status, body) == [t |-> "HTTPError", status |-> status, body |-> body, reason |-> ""]
UrlError(reason) == [t |-> "URLError", status |-> 0, body |-> NoBody, reason |-> reason]
OtherError == [t |-> "error", status |-> 0, body |-> NoBody, reason |-> "other"]
NoTransport == [t |-> "none", status |-> 0, body |-> NoBody, reason |-> ""]

TransportErrors == {UrlError("timeout"), UrlError("refused"), OtherError}

GetOutcomes ==
    {HttpReply(200, b) : b \in TagsBodies}
    \cup {HttpError(s, NoBody) : s \in {404, 500}}
    \cup TransportErrors

\* what a requests call gives its caller: a response, or an exception of a class
Response(status, body) == [exc |-> "", msg |-> <<>>, status |-> status, body |-> body]
Exc(class, msg) == [exc |-> class, msg |-> msg, status |-> 0, body |-> NoBody]

RequestsShim(raw) ==
    CASE raw.t = "response" -> Response(raw.status, raw.body)
      [] raw.t = "HTTPError" -> Response(raw.status, raw.body)
      [] raw.t = "URLError" ->
            IF raw.reason = "timeout" THEN Exc("Timeout", <<"timed out">>)
            ELSE Exc("ConnectionError", <<"connection refused">>)
      [] OTHER -> Exc("Exception", <<"transport failure">>)

RequestsGet(raw) == RequestsShim(raw)

RequestsPost(raw) == RequestsShim(raw)

\* response.json(): the parsed body, or the exception it raises
JsonOf(body) ==
    IF body.kind \in {"invalid", "none"}
    THEN Exc("Exception", <<"Expecting value">>)
    ELSE Response(200, body)

\* data.get(...) on a parsed body that is not a JSON object
NotADict == Exc("Exception", <<"'list' object has no attribute 'get'">>)

(***************************************************************************)
(* OllamaVLMClient.is_available                                            *)
(***************************************************************************)
Availability(a, m) == [available |-> a, message |-> m]
NoAvail == [available |-> FALSE, message |-> None]

MsgAvailable == <<"Ollama is running and model is available">>
MsgCannotConnect == <<"Cannot connect", " to Ollama. Is it running?", " Start with: ollama serve">>
MsgProbeTimeout == <<"Ollama server timeout">>
MsgProbeStatus(status) == <<"Ollama server returned status ">> \o Str(status)
MsgProbeError(msg) == <<"Error checking Ollama: ">> \o msg
MsgModelNotFound(mdl, models) ==
    <<"Model '">> \o mdl \o <<"' not found. Available: ">> \o Repr(models)

\* the same test made with the configured model string instead of its base
AnyVariantOfFullName(mdl, models) ==
    \E i \in DOMAIN models : Contains(models[i], mdl)

\* any(model_base in m for m in models)
AnyVariant(mdl, models) ==
    LET model_base == BeforeColon(mdl)
    IN  \E i \in DOMAIN models : Contains(models[i], model_base)

\* the body of the try block once the response is a 200 with a parsed listing
ModelListed(mdl, model_names) ==
    LET models == BareNames(model_names)
    IN  IF ~InList(mdl, models) /\ ~InList(mdl \o TagLatest, model_names)
           /\ ~AnyVariant(mdl, models)
        THEN Availability(FALSE, MsgModelNotFound(mdl, models))
        ELSE Availability(TRUE, MsgAvailable)

\* what a call gives its caller: a value returned, or an exception let through
Ret(v) == [exc |-> "", val |-> v]
Raise(class) == [exc |-> class, val |-> NoAvail]

\* handlers with the two specific clauses only
IsAvailableExceptNoCatchAll(e) ==
    CASE e.exc = "ConnectionError" -> Ret(Availability(FALSE, MsgCannotConnect))
      [] e.exc = "Timeout" -> Ret(Availability(FALSE, MsgProbeTimeout))
      [] OTHER -> Raise(e.exc)

\* the except clauses of is_available
IsAvailableExcept(e) ==
    CASE e.exc = "ConnectionError" -> Ret(Availability(FALSE, MsgCannotConnect))
      [] e.exc = "Timeout" -> Ret(Availability(FALSE, MsgProbeTimeout))
      [] OTHER -> Ret(Availability(FALSE, MsgProbeError(e.msg)))

IsAvailable(mdl, raw) ==
    LET response == RequestsGet(raw)
        data == JsonOf(response.body)
    IN  IF response.exc # "" THEN IsAvailableExcept(response)
        ELSE IF response.status # 200
        THEN Ret(Availability(FALSE, MsgProbeStatus(response.status)))
        ELSE IF data.exc # "" THEN IsAvailableExcept(data)
        ELSE IF data.body.kind # "object" THEN IsAvailableExcept(NotADict)
        ELSE Ret(ModelListed(mdl, data.body.models))

(***************************************************************************)
(* OllamaVLMClient.encode_image                                            *)
(***************************************************************************)
Paths == 1..MaxSnapshots
FileStates == {"absent", "empty", "data", "unreadable"}

PathText(p) == <<"snapshots/snapshot_">> \o Str(p) \o <<".png">>

\* base64 of the bytes read; None when the file is missing or the read raises
EncodeImage(file) ==
    CASE file = "absent" -> None
      [] file = "unreadable" -> None
      [] file = "empty" -> <<>>
      [] OTHER -> <<"iVBORw0KGgo=">>

(***************************************************************************)
(* OllamaVLMClient.analyze_image                                           *)
(***************************************************************************)
DEFAULT_TIMEOUT == 120

Absent == <<"<absent>">>

Chars == {" ", "x"}
ResponseTexts == SeqsUpTo(Chars, MaxText)

GenerateBodies ==
    {[kind |-> "object", models |-> <<>>, response |-> r, error |-> Absent] :
        r \in ResponseTexts \cup {Absent, None}}
    \cup {[kind |-> k, models |-> <<>>, response |-> Absent, error |-> Absent] :
            k \in {"invalid", "array"}}

BackendError == <<"model runner has unexpectedly stopped">>

ErrorBodies ==
    {[kind |-> "object", models |-> <<>>, response |-> Absent, error |-> e] :
        e \in {Absent, None, <<>>, BackendError}}
    \cup {[kind |-> k, models |-> <<>>, response |-> Absent, error |-> Absent] :
            k \in {"invalid", "array"}}

PostOutcomes ==
    {HttpReply(200, b) : b \in GenerateBodies}
    \cup {HttpError(500, b) : b \in ErrorBodies}
    \cup TransportErrors

\* the dict analyze_image returns; result.get(k) of a key it lacks reads None
VLMResult(s, r, e, m) == [success |-> s, response |-> r, error |-> e, model |-> m]
Failure(e) == VLMResult(FALSE, None, e, None)
NoResult == [success |-> FALSE, response |-> Absent, error |-> Absent, model |-> Absent]

MsgLoadFailed(p) == <<"Failed to load image: ">> \o PathText(p)
MsgStatus(status) == <<"Ollama returned status ">> \o Str(status)
MsgEmptyResponse == <<"Empty response from Ollama">>
MsgTimedOut ==
    <<"Request timed out after ">> \o Str(DEFAULT_TIMEOUT) \o <<"s. Try a simpler question.">>
MsgLostConnection == <<"Lost connection to Ollama. Is it still running?">>
MsgUnexpected(msg) == <<"Unexpected error: ">> \o msg

\* handlers that lack the Timeout clause
AnalyzeImageExceptNoTimeout(e) ==
    CASE e.exc = "ConnectionError" -> Ret(Failure(MsgLostConnection))
      [] OTHER -> Ret(Failure(MsgUnexpected(e.msg)))

\* the except clauses of analyze_image
AnalyzeImageExcept(e) ==
    CASE e.exc = "Timeout" -> Ret(Failure(MsgTimedOut))
      [] e.exc = "ConnectionError" -> Ret(Failure(MsgLostConnection))
      [] OTHER -> Ret(Failure(MsgUnexpected(e.msg)))

\* error_data.get("error", error_msg) inside its own try/except
ErrorMessageOf(response) ==
    LET error_msg == MsgStatus(response.status)
        error_data == JsonOf(response.body)
    IN  IF error_data.exc # "" THEN error_msg
        ELSE IF error_data.body.kind # "object" THEN error_msg
        ELSE IF error_data.body.error = Absent THEN error_msg
        ELSE error_data.body.error

\* the 200 branch taken without the emptiness test
GenerateSuccessUnchecked(mdl, body) ==
    LET ai_response == IF body.response = Absent THEN <<>> ELSE body.response
    IN  IF ai_response = None THEN Ret(Failure(MsgEmptyResponse))
        ELSE Ret(VLMResult(TRUE, Strip(ai_response), None, mdl))

\* the 200 branch once the body parsed to a JSON object
GenerateSuccess(mdl, body) ==
    LET ai_response == IF body.response = Absent THEN <<>> ELSE body.response
    IN  IF ~Truthy(ai_response) THEN Ret(Failure(MsgEmptyResponse))
        ELSE Ret(VLMResult(TRUE, Strip(ai_response), None, mdl))

\* the try block of analyze_image, from the POST on
Generate(mdl, raw) ==
    LET response == RequestsPost(raw)
        parsed == JsonOf(response.body)
    IN  IF response.exc # "" THEN AnalyzeImageExcept(response)
        ELSE IF response.status # 200 THEN Ret(Failure(ErrorMessageOf(response)))
        ELSE IF parsed.exc # "" THEN AnalyzeImageExcept(parsed)
        ELSE IF parsed.body.kind # "object" THEN AnalyzeImageExcept(NotADict)
        ELSE GenerateSuccess(mdl, parsed.body)

\* analyze_image goes on to the POST whatever the probe said
AfterProbeUnguarded(av) == "encode"

\* where analyze_image goes after the probe: on, or out with the failure
AfterProbe(av) == IF ~av.available THEN "done" ELSE "encode"

\* analyze_image sends the POST again after a failure
AfterGenerateRetry(out) == IF out.exc = "" /\ ~out.val.success THEN "post" ELSE "done"

\* where analyze_image goes after the POST: every branch of the try block and
\* every handler returns
AfterGenerate(out) == "done"

\* where analyze_image goes after encode_image
AfterEncode(image_b64) == IF ~Truthy(image_b64) THEN "done" ELSE "post"

(***************************************************************************)
(* dashboard/models.py: the Snapshot table                                 *)
(***************************************************************************)
Snapshot(created) ==
    [created |-> created, ai_summary |-> <<>>, ai_analyzed |-> FALSE,
     ai_analysis_error |-> <<>>]

\* Snapshot.objects.order_by('-created_at').first(), of a table that has rows
Latest(d) ==
    CHOOSE i \in DOMAIN d : \A j \in DOMAIN d : d[j].created <= d[i].created

\* saving a null into ai_analysis_error, a column that is not nullable
MsgIntegrity == <<"NOT NULL constraint failed: dashboard_snapshot.ai_analysis_error">>

(***************************************************************************)
(* dashboard/views.py                                                      *)
(***************************************************************************)
NoId == -1      \* snapshot_id null or missing in the request body

RequestIds == {NoId} \cup 0..(MaxSnapshots + 1)

\* bool(snapshot_id)
IdTruthy(id) == id # NoId /\ id # 0

Questions == {<<>>, <<" ">>, <<"q">>}

NoReq == [op |-> "", json |-> "", snapshot_id |-> NoId, question |-> <<>>]
NoCall == [op |-> "", path |-> 0]

JsonResponse(status, success, error, text, id) ==
    [status |-> status, success |-> success, error |-> error, text |-> text,
     snapshot_id |-> id]
NoResp == JsonResponse(0, "absent", Absent, Absent, 0)

ErrorResponse(status, error) == JsonResponse(status, "false", error, Absent, 0)

MsgNoQuestion == <<"Please provide a question">>
MsgInvalidJson == <<"Invalid JSON in request body">>
MsgSnapshotNotFound(id) == <<"Snapshot ">> \o Str(id) \o <<" not found">>
MsgNoSnapshotsChat == <<"No snapshots available", ". Please save a dashboard snapshot first.">>
MsgNoSnapshotsAnalyze == <<"No snapshots available">>
MsgImageMissingChat == <<"Snapshot image not found on disk">>
MsgImageMissingAnalyze == <<"Snapshot image not found">>
MsgIdRequired == <<"snapshot_id is required">>
MsgNoImage == <<"No image provided">>
MsgInvalidJsonData == <<"Invalid JSON data">>

\* "Get the snapshot to analyze": the row, or the 404 that ends the request
ResolveSnapshot(snapshot_id, d, none_msg) ==
    IF IdTruthy(snapshot_id)
    THEN IF snapshot_id \in DOMAIN d
         THEN [id |-> snapshot_id, resp |-> NoResp, seen |-> "unchecked"]
         ELSE [id |-> 0, resp |-> ErrorResponse(404, MsgSnapshotNotFound(snapshot_id)),
               seen |-> "unchecked"]
    ELSE IF d = <<>>
         THEN [id |-> 0, resp |-> ErrorResponse(404, none_msg), seen |-> "unchecked"]
         ELSE [id |-> Latest(d), resp |-> NoResp, seen |-> "unchecked"]

\* the check that lets every file state through
ImageExistsUnchecked(file) == TRUE

\* os.path.exists(snapshot.image.path)
ImageExists(file) == file # "absent"

\* the summary stored without marking the row analyzed
GenerateAiSummaryUnmarked(row, out) ==
    IF out.exc # ""
    THEN [row EXCEPT !.ai_analysis_error = <<"exception: ">> \o <<out.exc>>]
    ELSE IF out.val.success
    THEN [row EXCEPT !.ai_summary = out.val.response, !.ai_analysis_error = <<>>]
    ELSE IF out.val.error = None
    THEN [row EXCEPT !.ai_analyzed = TRUE, !.ai_analysis_error = MsgIntegrity]
    ELSE [row EXCEPT !.ai_analyzed = TRUE, !.ai_analysis_error = out.val.error]

\* a failure that also clears the stored summary
GenerateAiSummaryClearing(row, out) ==
    IF out.exc # ""
    THEN [row EXCEPT !.ai_analysis_error = <<"exception: ">> \o <<out.exc>>]
    ELSE IF out.val.success
    THEN [row EXCEPT !.ai_summary = out.val.response, !.ai_analyzed = TRUE,
                     !.ai_analysis_error = <<>>]
    ELSE IF out.val.error = None
    THEN [row EXCEPT !.ai_summary = <<>>, !.ai_analyzed = TRUE,
                     !.ai_analysis_error = MsgIntegrity]
    ELSE [row EXCEPT !.ai_summary = <<>>, !.ai_analyzed = TRUE,
                     !.ai_analysis_error = out.val.error]

\* generate_ai_summary_for_snapshot, from the client's outcome to the saved row
GenerateAiSummary(row, out) ==
    IF out.exc # ""
    THEN [row EXCEPT !.ai_analysis_error = <<"exception: ">> \o <<out.exc>>]
    ELSE IF out.val.success
    THEN [row EXCEPT !.ai_summary = out.val.response, !.ai_analyzed = TRUE,
                     !.ai_analysis_error = <<>>]
    ELSE IF out.val.error = None
    THEN [row EXCEPT !.ai_analyzed = TRUE, !.ai_analysis_error = MsgIntegrity]
    ELSE [row EXCEPT !.ai_analyzed = TRUE, !.ai_analysis_error = out.val.error]

\* the analysis saved over a summary the row already has
AnalyzeSaveOverwrites(row, out) ==
    IF out.exc = "" /\ out.val.success
    THEN [row EXCEPT !.ai_summary = out.val.response, !.ai_analyzed = TRUE]
    ELSE row

\* vlm_analyze: "Optionally save the analysis to the snapshot"
AnalyzeSave(row, out) ==
    IF out.exc = "" /\ out.val.success /\ ~Truthy(row.ai_summary)
    THEN [row EXCEPT !.ai_summary = out.val.response, !.ai_analyzed = TRUE]
    ELSE row

\* the table after the view has dealt with the client's outcome
ViewDb(d, op, id, out) ==
    CASE op \in {"save_snapshot", "regenerate"} ->
            [d EXCEPT ![id] = GenerateAiSummary(d[id], out)]
      [] op = "analyze" -> [d EXCEPT ![id] = AnalyzeSave(d[id], out)]
      [] OTHER -> d

\* the tail of vlm_chat and vlm_analyze: the answer, or the client's error
AnswerResponse(id, out) ==
    IF out.exc # "" THEN ErrorResponse(500, <<"exception: ">> \o <<out.exc>>)
    ELSE IF out.val.success
    THEN JsonResponse(200, "true", Absent, out.val.response, id)
    ELSE ErrorResponse(500, out.val.error)

\* the tail of vlm_regenerate_summary, read back from the refreshed row
RegenerateResponse(row, id) ==
    JsonResponse(200, "true",
                 IF Truthy(row.ai_analysis_error) THEN row.ai_analysis_error ELSE None,
                 row.ai_summary, id)

\* the tail of save_snapshot
SaveResponse(id) == JsonResponse(200, "absent", Absent, Absent, id)

ViewResponse(d, op, id, out) ==
    CASE op \in {"chat", "analyze"} -> AnswerResponse(id, out)
      [] op = "regenerate" -> RegenerateResponse(d[id], id)
      [] op = "save_snapshot" -> SaveResponse(id)
      [] OTHER -> NoResp

(***************************************************************************)
(* vlm_integration/image_processor.py: the files of snapshots_dir, and of   *)
(* a directory beside it                                                   *)
(***************************************************************************)
TARGET_MAX_DIMENSION == 1024
MinFileSize == 1000
MaxFileSize == 50000000
MinPixels == 100

SUPPORTED_FORMATS == {".png", ".jpg", ".jpeg", ".webp"}

\* str.lower() of a file suffix
Lower(suffix) ==
    CASE suffix = ".PNG" -> ".png"
      [] suffix = ".JPG" -> ".jpg"
      [] OTHER -> suffix

\* Path.suffix and Path.name of a file name spelled <<stem, suffix>>
Suffix(name) == name[Len(name)]

\* a path is a file name of snapshots_dir, or one behind another directory
Directories == {"uploads/"}

\* Path.parent: <<>> is snapshots_dir
Parent(path) ==
    IF path # <<>> /\ Head(path) \in Directories THEN <<Head(path)>> ELSE <<>>

\* Path.name
Name(path) ==
    IF path # <<>> /\ Head(path) \in Directories THEN Tail(path) ELSE path

\* f"processed_{image_path.name}" rewritten onto the source itself
ProcessedNameInPlace(name) == name

\* self.snapshots_dir / f"processed_{image_path.name}"
ProcessedName(path) == <<"processed_">> \o Name(path)

Callers == {"c1", "c2"}

\* files a user or save_snapshot puts into the directory
Snapshot1 == <<"snapshot_1", ".png">>
Snapshot2 == <<"snapshot_2", ".JPG">>
Notes == <<"notes", ".txt">>

Originals == {Snapshot1, Snapshot2, Notes}

Derivatives == {ProcessedName(n) : n \in Originals}

\* an image outside snapshots_dir
Upload == <<"uploads/", "chart", ".png">>

FileNames == Originals \cup Derivatives \cup {Upload, ProcessedName(Upload)}

\* a directory entry: what exists(), is_file(), stat() and Image.open see of it
FileEntry(size, width, height, intact, mtime) ==
    [kind |-> "file", size |-> size, width |-> width, height |-> height,
     intact |-> intact, mtime |-> mtime]
NoEntry ==
    [kind |-> "absent", size |-> 0, width |-> 0, height |-> 0,
     intact |-> FALSE, mtime |-> 0]
DirEntry(mtime) ==
    [kind |-> "dir", size |-> 0, width |-> 0, height |-> 0,
     intact |-> FALSE, mtime |-> mtime]

\* the call a caller has in flight
NoProc ==
    [pc |-> "idle", op |-> "", path |-> None, max_dim |-> 0, size |-> 0,
     width |-> 0, height |-> 0, new_width |-> 0, new_height |-> 0,
     target |-> None, listing |-> <<>>, ok |-> FALSE, message |-> None,
     ret |-> None, raised |-> FALSE, wrote |-> {}]

\* no ImageProcessor call is in flight and the directory is empty
ImagesIdle ==
    /\ pilAvailable = TRUE
    /\ dirExists = TRUE
    /\ files = [n \in FileNames |-> NoEntry]
    /\ proc = [c \in Callers |-> NoProc]
    /\ clock = 1

(***************************************************************************)
(* vlm_integration/prompt_templates.py.  A prompt is a sequence of tokens;  *)
(* a template spells its placeholders as tokens of their own; "\n" is the  *)
(* line break.                                                             *)
(***************************************************************************)
FINANCIAL_ANALYST_SYSTEM ==
    <<"You are an expert financial analyst AI assistant ... Don't make unsupported predictions">>

SNAPSHOT_SUMMARY_PROMPT ==
    <<"Analyze this financial dashboard snapshot and provide a brief summary. ...">>

DETAILED_ANALYSIS_PROMPT ==
    <<"Perform a comprehensive analysis of this financial dashboard. ...">>

CORRELATION_PROMPT_TEMPLATE ==
    <<"Analyze the correlation between ", "{commodity1}", " and ", "{commodity2}",
      " based on the charts in this dashboard. ...">>

TREND_ANALYSIS_TEMPLATE ==
    <<"Analyze the ", "{commodity}", " price trend shown in this dashboard. ...">>

VOLATILITY_ANALYSIS_PROMPT ==
    <<"Assess the volatility of each commodity shown in this dashboard. ...">>

\* template.format(**values): every placeholder replaced by its value
Format(template, values) ==
    [i \in DOMAIN template |->
        IF template[i] \in DOMAIN values THEN values[template[i]] ELSE template[i]]

\* "\n".join(parts)
RECURSIVE Join(_)
Join(parts) ==
    IF parts = <<>> THEN <<>>
    ELSE IF Len(parts) = 1 THEN parts[1]
    ELSE parts[1] \o <<"\n">> \o Join(Tail(parts))

\* f"{price:.2f}" of a price given in thousandths, none of them at a tie
Format2f(price) ==
    LET cents == (price + 5) \div 10
    IN  Str(cents \div 100) \o <<".">> \o <<Digit((cents \div 10) % 10), Digit(cents % 10)>>

\* the context dict: the keys it has, its latest_date, and its commodities in
\* the order of the mapping, each with or without a price
Commodity(name, has_price, price) ==
    [name |-> name, has_price |-> has_price, price |-> price]

Context(keys, latest_date, commodities) ==
    [none |-> FALSE, keys |-> keys, latest_date |-> latest_date,
     commodities |-> commodities]

NoContext == [none |-> TRUE, keys |-> {}, latest_date |-> "", commodities |-> <<>>]

\* bool(context)
ContextTruthy(context) == ~context.none /\ context.keys # {}

\* the price lines of the loop over context["commodities"].items()
RECURSIVE PriceLines(_)
PriceLines(commodities) ==
    IF commodities = <<>> THEN <<>>
    ELSE (IF Head(commodities).has_price
          THEN <<<<"- ", Head(commodities).name, ": $">>
                 \o Format2f(Head(commodities).price)>>
          ELSE <<>>)
         \o PriceLines(Tail(commodities))

ChatInstructions ==
    <<"Analyze the dashboard image to answer this question.", "\n",
      "Be specific about what you observe in the charts and KPI cards.", "\n",
      "If the question asks about correlations, compare the trend lines.">>

\* build_chat_prompt with the question put before the context block
BuildChatPromptQuestionFirst(user_question, context) ==
    Join(<<<<"User Question: ">> \o user_question, <<>>>>
         \o (IF ContextTruthy(context)
             THEN <<<<"Dashboard Context:">>>>
                  \o (IF "latest_date" \in context.keys
                      THEN <<<<"- Data as of: ", context.latest_date>>>>
                      ELSE <<>>)
                  \o (IF "commodities" \in context.keys
                      THEN PriceLines(context.commodities)
                      ELSE <<>>)
                  \o <<<<>>>>
             ELSE <<>>)
         \o <<ChatInstructions>>)

\* PromptTemplates.build_chat_prompt
BuildChatPrompt(user_question, context) ==
    Join((IF ContextTruthy(context)
          THEN <<<<"Dashboard Context:">>>>
               \o (IF "latest_date" \in context.keys
                   THEN <<<<"- Data as of: ", context.latest_date>>>>
                   ELSE <<>>)
               \o (IF "commodities" \in context.keys
                   THEN PriceLines(context.commodities)
                   ELSE <<>>)
               \o <<<<>>>>
          ELSE <<>>)
         \o <<<<"User Question: ">> \o user_question, <<>>, ChatInstructions>>)

\* the selection with the volatility branch missing
AnalysisPromptNoVolatility(analysis_type) ==
    CASE analysis_type = <<"trends">> ->
            Format(TREND_ANALYSIS_TEMPLATE, [x \in {"{commodity}"} |-> "all commodities"])
      [] analysis_type = <<"correlation">> ->
            Format(CORRELATION_PROMPT_TEMPLATE,
                   [x \in {"{commodity1}", "{commodity2}"} |->
                        IF x = "{commodity1}" THEN "gold" ELSE "oil"])
      [] OTHER -> DETAILED_ANALYSIS_PROMPT

\* vlm_analyze: "Select prompt based on analysis type"
AnalysisPrompt(analysis_type) ==
    CASE analysis_type = <<"trends">> ->
            Format(TREND_ANALYSIS_TEMPLATE, [x \in {"{commodity}"} |-> "all commodities"])
      [] analysis_type = <<"correlation">> ->
            Format(CORRELATION_PROMPT_TEMPLATE,
                   [x \in {"{commodity1}", "{commodity2}"} |->
                        IF x = "{commodity1}" THEN "gold" ELSE "oil"])
      [] analysis_type = <<"volatility">> -> VOLATILITY_ANALYSIS_PROMPT
      [] OTHER -> DETAILED_ANALYSIS_PROMPT

\* analyze_image: "Construct the full prompt with system context"
FullPrompt(prompt, system_prompt) ==
    IF Truthy(system_prompt) THEN system_prompt \o <<"\n\n">> \o prompt ELSE prompt

\* what analyze_image, chat or generate_snapshot_summary is called with, and
\* the locals of the caller that made the prompt
Args(question, context, analysis_type, prompt, system_prompt) ==
    [question |-> question, context |-> context, analysis_type |-> analysis_type,
     prompt |-> prompt, system_prompt |-> system_prompt]

NoArgs == Args(<<>>, NoContext, Absent, <<>>, None)

\* client.chat(question, path, context)
ChatArgs(question, context) ==
    Args(question, context, Absent, BuildChatPrompt(question, context),
         FINANCIAL_ANALYST_SYSTEM)

\* client.generate_snapshot_summary(path)
SummaryArgs ==
    Args(<<>>, NoContext, Absent, SNAPSHOT_SUMMARY_PROMPT, FINANCIAL_ANALYST_SYSTEM)

\* vlm_analyze: data.get('analysis_type', 'full'), then client.analyze_image
AnalyzeArgs(analysis_type) ==
    LET kind == IF analysis_type = Absent THEN <<"full">> ELSE analysis_type
    IN  Args(<<>>, NoContext, kind, AnalysisPrompt(kind), FINANCIAL_ANALYST_SYSTEM)

\* client.analyze_image(path, prompt) with no system prompt
DirectArgs == Args(<<>>, NoContext, Absent, <<"Describe the chart.">>, None)

ArgsOf(op) ==
    CASE op = "chat" -> ChatArgs(<<"q">>, NoContext)
      [] op = "generate_snapshot_summary" -> SummaryArgs
      [] op = "analyze_image" -> DirectArgs
      [] OTHER -> NoArgs

NoPayload == Absent

(***************************************************************************)
(* The process: the default client of get_vlm_client and the threads that  *)
(* use it                                                                  *)
(***************************************************************************)
DEFAULT_HOST == <<"http://localhost:11434">>

\* OllamaVLMClient.__init__: the attributes beside model
Config(host, timeout) ==
    [host |-> host, timeout |-> timeout,
     api_generate |-> host \o <<"/api/generate">>,
     api_tags |-> host \o <<"/api/tags">>]

Threads == {"t1", "t2"}

NoThread ==
    [pc |-> "idle", op |-> "", seen_none |-> FALSE, client |-> 0, path |-> 0,
     get |-> NoTransport, file |-> "", post |-> NoTransport,
     avail |-> NoAvail, encoded |-> Absent, result |-> NoResult, raised |-> FALSE]

\* the default client exists and no thread is at work
ProcessIdle ==
    /\ config = Config(DEFAULT_HOST, DEFAULT_TIMEOUT)
    /\ default_client = 1
    /\ constructed = 1
    /\ thread = [t \in Threads |-> NoThread]

(***************************************************************************)
(* Invocations                                                             *)
(***************************************************************************)
GET == "GET /api/tags"
POST == "POST /api/generate"

Idle ==
    /\ pc = "idle"
    /\ call = NoCall
    /\ req = NoReq
    /\ snap = 0
    /\ seen = "unchecked"
    /\ avail = NoAvail
    /\ encoded = Absent
    /\ result = NoResult
    /\ raised = FALSE
    /\ resp = NoResp
    /\ net = <<>>
    /\ lastGet = NoTransport
    /\ lastPost = NoTransport
    /\ args = NoArgs
    /\ payload = NoPayload

\* the client operation ends with outcome out; a view that called it goes on
\* to its own tail: what it saves and what it answers
Finish(out) ==
    /\ pc' = "done"
    /\ raised' = (out.exc # "")
    /\ result' = IF out.exc # "" THEN NoResult ELSE out.val
    /\ db' = IF req = NoReq THEN db ELSE ViewDb(db, req.op, snap, out)
    /\ resp' = IF req = NoReq THEN resp ELSE ViewResponse(db', req.op, snap, out)

\* is_available(): the GET, answered by one of the outcomes in R
Probe(R) ==
    /\ pc = "probe"
    /\ \E raw \in R :
        LET out == IsAvailable(model, raw)
        IN  /\ lastGet' = raw
            /\ net' = Append(net, GET)
            /\ avail' = out.val
            /\ IF out.exc # ""
               THEN Finish([exc |-> out.exc, val |-> NoResult])
               ELSE IF call.op = "is_available"
               THEN /\ pc' = "done"
                    /\ UNCHANGED <<raised, result, db, resp>>
               ELSE IF AfterProbe(out.val) = "done"
               THEN Finish(Ret(Failure(out.val.message)))
               ELSE /\ pc' = AfterProbe(out.val)
                    /\ UNCHANGED <<raised, result, db, resp>>
    /\ UNCHANGED <<imageVars, processVars, promptVars, model, disk, call, req, snap, seen, encoded, lastPost>>

\* encode_image(image_path)
Encode ==
    /\ pc = "encode"
    /\ LET image_b64 == EncodeImage(disk[call.path])
       IN  /\ encoded' = image_b64
           /\ IF call.op = "encode_image"
              THEN /\ pc' = "done"
                   /\ UNCHANGED <<raised, result, db, resp>>
              ELSE IF AfterEncode(image_b64) = "done"
              THEN Finish(Ret(Failure(MsgLoadFailed(call.path))))
              ELSE /\ pc' = AfterEncode(image_b64)
                   /\ UNCHANGED <<raised, result, db, resp>>
    /\ UNCHANGED <<imageVars, processVars, promptVars, model, disk, call, req, snap, seen, avail, net, lastGet, lastPost>>

\* the POST, answered by one of the outcomes in R, and what analyze_image
\* returns for it
Post(R) ==
    /\ pc = "post"
    /\ \E raw \in R :
        LET out == Generate(model, raw)
        IN  /\ lastPost' = raw
            /\ net' = Append(net, POST)
            /\ payload' = FullPrompt(args.prompt, args.system_prompt)
            /\ IF AfterGenerate(out) = "done"
               THEN Finish(out)
               ELSE /\ pc' = AfterGenerate(out)
                    /\ UNCHANGED <<raised, result, db, resp>>
    /\ UNCHANGED <<imageVars, processVars, args, model, disk, call, req, snap, seen, avail,
                   encoded, lastGet>>

\* the caller has its answer; the next invocation starts from scratch
Return ==
    /\ pc = "done"
    /\ pc' = "idle"
    /\ call' = NoCall
    /\ req' = NoReq
    /\ snap' = 0
    /\ seen' = "unchecked"
    /\ avail' = NoAvail
    /\ encoded' = Absent
    /\ result' = NoResult
    /\ raised' = FALSE
    /\ resp' = NoResp
    /\ net' = <<>>
    /\ lastGet' = NoTransport
    /\ lastPost' = NoTransport
    /\ args' = NoArgs
    /\ payload' = NoPayload
    /\ UNCHANGED <<imageVars, processVars, model, disk, db>>

(***************************************************************************)
(* The client called directly                                              *)
(***************************************************************************)
AnalyzeOps == {"analyze_image", "chat", "generate_snapshot_summary"}

CallIsAvailable ==
    /\ pc = "idle"
    /\ pc' = "probe"
    /\ call' = [op |-> "is_available", path |-> 0]
    /\ UNCHANGED <<imageVars, processVars, promptVars, model, disk, db, req, snap, seen, avail, encoded, result, raised,
                   resp, net, lastGet, lastPost>>

CallEncodeImage ==
    /\ pc = "idle"
    /\ \E p \in Paths :
        /\ pc' = "encode"
        /\ call' = [op |-> "encode_image", path |-> p]
    /\ UNCHANGED <<imageVars, processVars, promptVars, model, disk, db, req, snap, seen, avail, encoded, result, raised,
                   resp, net, lastGet, lastPost>>

\* analyze_image, and chat and generate_snapshot_summary, which build their
\* prompt and delegate to it
CallAnalyze ==
    /\ pc = "idle"
    /\ \E op \in AnalyzeOps, p \in Paths :
        /\ pc' = "probe"
        /\ call' = [op |-> op, path |-> p]
        /\ args' = ArgsOf(op)
    /\ UNCHANGED <<imageVars, processVars, payload, model, disk, db, req, snap, seen, avail, encoded, result, raised,
                   resp, net, lastGet, lastPost>>

\* another process creates, truncates, locks or removes an image file
FileChange ==
    /\ \E p \in Paths, f \in FileStates :
        /\ disk[p] # f
        /\ disk' = [disk EXCEPT ![p] = f]
    /\ UNCHANGED <<imageVars, processVars, promptVars, model, db, pc, call, req, snap, seen, avail, encoded, result,
                   raised, resp, net, lastGet, lastPost>>

(***************************************************************************)
(* is_available alone, for every configured model and every listing        *)
(***************************************************************************)
InitAvail ==
    /\ model \in ModelNames
    /\ disk = [p \in Paths |-> "absent"]
    /\ db = <<>>
    /\ Idle
    /\ ImagesIdle
    /\ ProcessIdle

AvailProbe == Probe(GetOutcomes)

NextAvail == CallIsAvailable \/ AvailProbe \/ Return

SpecAvail == InitAvail /\ [][NextAvail]_vars

(***************************************************************************)
(* The client with its default configuration                               *)
(***************************************************************************)
ClientListings ==
    {<<>>, <<Llava \o TagLatest>>, <<Mistral \o Tag7b, Llava>>, <<Mistral>>}

ClientGetOutcomes ==
    {HttpReply(200, [kind |-> "object", models |-> l, response |-> None, error |-> None]) :
        l \in ClientListings}
    \cup {HttpReply(200, [kind |-> "invalid", models |-> <<>>, response |-> None,
                          error |-> None]),
          HttpError(500, NoBody)}
    \cup TransportErrors

InitClient ==
    /\ model = DEFAULT_MODEL
    /\ disk \in [Paths -> FileStates]
    /\ db = <<>>
    /\ Idle
    /\ ImagesIdle
    /\ ProcessIdle

ClientProbe == Probe(ClientGetOutcomes)

ClientPost == Post(PostOutcomes)

NextClient ==
    \/ CallIsAvailable
    \/ CallEncodeImage
    \/ CallAnalyze
    \/ ClientProbe
    \/ Encode
    \/ ClientPost
    \/ Return
    \/ FileChange

SpecClient == InitClient /\ [][NextClient]_vars

(***************************************************************************)
(* The views: a request arrives, the view resolves and checks the          *)
(* snapshot, and either answers at once or calls the client                *)
(***************************************************************************)
Request(op, json, snapshot_id, question) ==
    [op |-> op, json |-> json, snapshot_id |-> snapshot_id, question |-> question]

Malformed(op) == Request(op, "malformed", NoId, <<>>)

\* what a view decides before any client call: the row it will use (0: none)
\* and the response that ends the request (NoResp: go on to the client)
Stop(id, response) == [id |-> id, resp |-> response, seen |-> "unchecked"]

\* the same once the view has looked at the image file and found it in state file
Checked(id, response, file) == [id |-> id, resp |-> response, seen |-> file]

\* vlm_chat up to "Verify the image exists"
ChatStart(r, d, dsk) ==
    LET question == Strip(r.question)
        found == ResolveSnapshot(r.snapshot_id, d, MsgNoSnapshotsChat)
    IN  IF r.json = "malformed" THEN Stop(0, ErrorResponse(400, MsgInvalidJson))
        ELSE IF ~Truthy(question) THEN Stop(0, ErrorResponse(400, MsgNoQuestion))
        ELSE IF found.resp # NoResp THEN found
        ELSE IF ~ImageExists(dsk[found.id])
        THEN Checked(found.id, ErrorResponse(404, MsgImageMissingChat), dsk[found.id])
        ELSE Checked(found.id, NoResp, dsk[found.id])

\* vlm_analyze up to "Verify image exists"
AnalyzeStart(r, d, dsk) ==
    LET found == ResolveSnapshot(r.snapshot_id, d, MsgNoSnapshotsAnalyze)
    IN  IF r.json = "malformed" THEN Stop(0, ErrorResponse(400, MsgInvalidJson))
        ELSE IF found.resp # NoResp THEN found
        ELSE IF ~ImageExists(dsk[found.id])
        THEN Checked(found.id, ErrorResponse(404, MsgImageMissingAnalyze), dsk[found.id])
        ELSE Checked(found.id, NoResp, dsk[found.id])

\* vlm_regenerate_summary up to "Generate new summary".  json.loads raising
\* lands in the view's only handler, which answers 500.
RegenerateStart(r, d) ==
    IF r.json = "malformed" THEN Stop(0, ErrorResponse(500, <<"exception: ">> \o <<"JSONDecodeError">>))
    ELSE IF ~IdTruthy(r.snapshot_id) THEN Stop(0, ErrorResponse(400, MsgIdRequired))
    ELSE IF r.snapshot_id \notin DOMAIN d
    THEN Stop(0, ErrorResponse(404, MsgSnapshotNotFound(r.snapshot_id)))
    ELSE Stop(r.snapshot_id, NoResp)

ClientOpOf(op) ==
    CASE op = "chat" -> "chat"
      [] op = "analyze" -> "analyze_image"
      [] OTHER -> "generate_snapshot_summary"

\* the view has decided: answer now, or call the client on the row's image
Begin(r, start) ==
    /\ req' = r
    /\ snap' = start.id
    /\ seen' = start.seen
    /\ IF start.resp # NoResp
       THEN /\ pc' = "done"
            /\ resp' = start.resp
            /\ call' = NoCall
       ELSE /\ pc' = "probe"
            /\ resp' = NoResp
            /\ call' = [op |-> ClientOpOf(r.op), path |-> start.id]

VlmChat ==
    /\ pc = "idle"
    /\ \E r \in {Malformed("chat")}
                \cup {Request("chat", "object", i, q) : i \in RequestIds, q \in Questions} :
        /\ Begin(r, ChatStart(r, db, disk))
        /\ args' = IF call' = NoCall THEN NoArgs
                   ELSE ChatArgs(Strip(r.question), NoContext)
    /\ UNCHANGED <<imageVars, processVars, payload, model, disk, db, avail, encoded, result, raised, net,
                   lastGet, lastPost>>

\* vlm_analyze, for the analysis_type values K of the request body
AnalyzeView(K) ==
    /\ pc = "idle"
    /\ \E r \in {Malformed("analyze")}
                \cup {Request("analyze", "object", i, <<>>) : i \in RequestIds} :
        /\ Begin(r, AnalyzeStart(r, db, disk))
        /\ \E k \in K : args' = IF call' = NoCall THEN NoArgs ELSE AnalyzeArgs(k)
    /\ UNCHANGED <<imageVars, processVars, payload, model, disk, db, avail, encoded, result, raised, net,
                   lastGet, lastPost>>

VlmAnalyze == AnalyzeView({Absent})

VlmRegenerateSummary ==
    /\ pc = "idle"
    /\ \E r \in {Malformed("regenerate")}
                \cup {Request("regenerate", "object", i, <<>>) : i \in RequestIds} :
        /\ Begin(r, RegenerateStart(r, db))
        /\ args' = IF call' = NoCall THEN NoArgs ELSE SummaryArgs
    /\ UNCHANGED <<imageVars, processVars, payload, model, disk, db, avail, encoded, result, raised, net,
                   lastGet, lastPost>>

\* save_snapshot: the 400s, or the new row with its image file written, then
\* generate_ai_summary_for_snapshot.  The question field carries the image
\* payload: "" for none, " " for one that decodes to no bytes.
SaveSnapshot ==
    /\ pc = "idle"
    /\ \E r \in {Malformed("save_snapshot")}
                \cup {Request("save_snapshot", "object", NoId, q) : q \in Questions} :
        LET id == Len(db) + 1
        IN  IF r.json = "malformed"
            THEN /\ Begin(r, Stop(0, ErrorResponse(400, MsgInvalidJsonData)))
                 /\ UNCHANGED <<db, disk>>
            ELSE IF ~Truthy(r.question)
            THEN /\ Begin(r, Stop(0, ErrorResponse(400, MsgNoImage)))
                 /\ UNCHANGED <<db, disk>>
            ELSE /\ id <= MaxSnapshots
                 /\ db' = Append(db, Snapshot(id))
                 /\ disk' = [disk EXCEPT ![id] =
                                IF r.question = <<" ">> THEN "empty" ELSE "data"]
                 /\ Begin(r, [id |-> id, resp |-> NoResp, seen |-> "written"])
    /\ args' = IF call' = NoCall THEN NoArgs ELSE SummaryArgs
    /\ UNCHANGED <<imageVars, processVars, payload, model, avail, encoded, result, raised, net, lastGet, lastPost>>

\* the page a view renders from its template
Rendered == JsonResponse(200, "absent", Absent, Absent, 0)

PageOps == {"dashboard_page", "snapshots_page"}

\* a page view reads the table (and the CSV file) and renders
PageStart(op) == Stop(0, Rendered)

\* dashboard_page and snapshots_page
PageView ==
    /\ pc = "idle"
    /\ \E op \in PageOps : Begin(Request(op, "", NoId, <<>>), PageStart(op))
    /\ UNCHANGED <<imageVars, processVars, promptVars, model, disk, db, avail, encoded, result, raised, net,
                   lastGet, lastPost>>

\* another process removes a snapshot's image file
RemoveFile ==
    /\ \E p \in DOMAIN db :
        /\ disk[p] # "absent"
        /\ disk' = [disk EXCEPT ![p] = "absent"]
    /\ UNCHANGED <<imageVars, processVars, promptVars, model, db, pc, call, req, snap, seen, avail, encoded, result,
                   raised, resp, net, lastGet, lastPost>>

PipeGetOutcomes ==
    {HttpReply(200, [kind |-> "object", models |-> <<Llava \o TagLatest>>,
                     response |-> None, error |-> None]),
     UrlError("refused")}

PipePostOutcomes ==
    {HttpReply(200, [kind |-> "object", models |-> <<>>, response |-> <<"x">>,
                     error |-> Absent]),
     HttpReply(200, [kind |-> "object", models |-> <<>>, response |-> <<" ">>,
                     error |-> Absent]),
     HttpError(500, [kind |-> "object", models |-> <<>>, response |-> Absent,
                     error |-> Absent]),
     HttpError(500, [kind |-> "object", models |-> <<>>, response |-> Absent,
                     error |-> None]),
     UrlError("timeout")}

Init ==
    /\ model = DEFAULT_MODEL
    /\ disk = [p \in Paths |-> "absent"]
    /\ db = <<>>
    /\ Idle
    /\ ImagesIdle
    /\ ProcessIdle

PipeProbe == Probe(PipeGetOutcomes)

PipePost == Post(PipePostOutcomes)

Next ==
    \/ VlmChat
    \/ VlmAnalyze
    \/ VlmRegenerateSummary
    \/ SaveSnapshot
    \/ PageView
    \/ PipeProbe
    \/ Encode
    \/ PipePost
    \/ Return
    \/ RemoveFile

Spec == Init /\ [][Next]_vars

(***************************************************************************)
(* ImageProcessor.validate_image and prepare_for_vlm                       *)
(***************************************************************************)
MsgNotFound(path) == <<"Image not found: ">> \o path
MsgNotAFile(path) == <<"Not a file: ">> \o path
MsgUnsupported(path) == <<"Unsupported format: ", Suffix(path)>>
MsgTooSmall == <<"Image file too small, might be corrupted">>
MsgTooLarge == <<"Image file too large for processing">>
MsgDimsTooSmall == <<"Image dimensions too small">>
MsgInvalidImage == <<"Invalid image file: ", "cannot identify image file">>
MsgValid == <<"Image is valid">>
MsgPilMissing == <<"PIL not available, using original image">>
MsgOptimal == <<"Image already optimal size">>
MsgProcessingFailed == <<"Processing failed: ", "error">>
MsgResized(w, h, nw, nh) ==
    <<"Resized from ">> \o Str(w) \o <<"x">> \o Str(h)
    \o <<" to ">> \o Str(nw) \o <<"x">> \o Str(nh)

\* a size check that turns the lower boundary away
SizeCheckExclusive(file_size) ==
    IF file_size <= MinFileSize THEN MsgTooSmall
    ELSE IF file_size > MaxFileSize THEN MsgTooLarge
    ELSE MsgValid

\* the two size tests of validate_image: the message of the one that fails
SizeCheck(file_size) ==
    IF file_size < MinFileSize THEN MsgTooSmall
    ELSE IF file_size > MaxFileSize THEN MsgTooLarge
    ELSE MsgValid

\* max_dimension or self.TARGET_MAX_DIMENSION
MaxDim(max_dimension) ==
    IF max_dimension = 0 THEN TARGET_MAX_DIMENSION ELSE max_dimension

\* an image at the limit is resized too
NeedsResizeAtLimit(width, height, max_dim) == ~(width < max_dim /\ height < max_dim)

\* "Check if resizing is needed"
NeedsResize(width, height, max_dim) == ~(width <= max_dim /\ height <= max_dim)

RECURSIVE Gcd(_, _)
Gcd(a, b) == IF b = 0 THEN a ELSE Gcd(b, a % b)

RECURSIVE IsPowerOfTwo(_)
IsPowerOfTwo(n) ==
    IF n = 1 THEN TRUE ELSE IF n % 2 = 0 THEN IsPowerOfTwo(n \div 2) ELSE FALSE

\* int(x * (m / w)) in double arithmetic.  m / w is exact when the reduced
\* denominator is a power of two; otherwise it is rounded, and a product
\* that is a whole number in exact arithmetic may come out just below it.
Scaled(x, m, w) ==
    LET exact == (x * m) \div w
    IN  IF (x * m) % w = 0 /\ ~IsPowerOfTwo(w \div Gcd(m, w))
        THEN {exact - 1, exact}
        ELSE {exact}

\* "Calculate new dimensions maintaining aspect ratio"
NewDimensions(width, height, max_dim) ==
    IF width > height
    THEN {<<max_dim, nh>> : nh \in Scaled(height, max_dim, width)}
    ELSE {<<nw, max_dim>> : nw \in Scaled(width, max_dim, height)}

\* the call in flight of caller c becomes q
Becomes(c, q) == proc' = [proc EXCEPT ![c] = q]

\* the call returns or raises
Done(q) == [q EXCEPT !.pc = "done"]
Raises(q) == [q EXCEPT !.pc = "done", !.raised = TRUE]

\* validate_image returns (ok, message): to its caller, or to prepare_for_vlm,
\* which returns (None, message), returns the original when PIL is missing,
\* or goes on to open the image
ValidateReturns(q, ok, message) ==
    IF q.op = "validate_image"
    THEN Done([q EXCEPT !.ok = ok, !.message = message])
    ELSE IF ~ok
    THEN Done([q EXCEPT !.ok = FALSE, !.message = message, !.ret = None])
    ELSE IF ~pilAvailable
    THEN Done([q EXCEPT !.ok = TRUE, !.message = MsgPilMissing, !.ret = q.path])
    ELSE [q EXCEPT !.pc = "open", !.ok = TRUE, !.message = message]

\* image_path.exists()
Exists(c) ==
    LET q == proc[c]
    IN  /\ q.pc = "exists"
        /\ Becomes(c, IF files[q.path].kind = "absent"
                       THEN ValidateReturns(q, FALSE, MsgNotFound(q.path))
                       ELSE [q EXCEPT !.pc = "is_file"])
        /\ UNCHANGED <<clientVars, promptVars, processVars, pilAvailable, dirExists, files, clock>>

\* image_path.is_file(), then the suffix test
IsFile(c) ==
    LET q == proc[c]
    IN  /\ q.pc = "is_file"
        /\ Becomes(c, IF files[q.path].kind # "file"
                       THEN ValidateReturns(q, FALSE, MsgNotAFile(q.path))
                       ELSE IF Lower(Suffix(q.path)) \notin SUPPORTED_FORMATS
                       THEN ValidateReturns(q, FALSE, MsgUnsupported(q.path))
                       ELSE [q EXCEPT !.pc = "stat"])
        /\ UNCHANGED <<clientVars, promptVars, processVars, pilAvailable, dirExists, files, clock>>

\* image_path.stat().st_size, outside any try block, then the size tests
Stat(c) ==
    LET q == proc[c]
        f == files[q.path]
    IN  /\ q.pc = "stat"
        /\ Becomes(c, IF f.kind = "absent" THEN Raises(q)
                       ELSE IF SizeCheck(f.size) # MsgValid
                       THEN ValidateReturns([q EXCEPT !.size = f.size], FALSE, SizeCheck(f.size))
                       ELSE IF pilAvailable
                       THEN [q EXCEPT !.size = f.size, !.pc = "verify"]
                       ELSE ValidateReturns([q EXCEPT !.size = f.size], TRUE, MsgValid))
        /\ UNCHANGED <<clientVars, promptVars, processVars, pilAvailable, dirExists, files, clock>>

\* Image.open, verify, reopen and the dimension test, inside the try block
Verify(c) ==
    LET q == proc[c]
        f == files[q.path]
    IN  /\ q.pc = "verify"
        /\ Becomes(c, IF f.kind # "file" \/ ~f.intact
                       THEN ValidateReturns(q, FALSE, MsgInvalidImage)
                       ELSE IF f.width < MinPixels \/ f.height < MinPixels
                       THEN ValidateReturns(q, FALSE, MsgDimsTooSmall)
                       ELSE ValidateReturns(q, TRUE, MsgValid))
        /\ UNCHANGED <<clientVars, promptVars, processVars, pilAvailable, dirExists, files, clock>>

\* prepare_for_vlm: Image.open, the resize decision, the new dimensions and
\* img.resize, which raises on an empty size; all inside the try block
Open(c) ==
    LET q == proc[c]
        f == files[q.path]
        max_dim == MaxDim(q.max_dim)
        seen_q == [q EXCEPT !.width = f.width, !.height = f.height]
    IN  /\ q.pc = "open"
        /\ IF f.kind # "file" \/ ~f.intact
           THEN Becomes(c, Done([q EXCEPT !.ret = None, !.message = MsgProcessingFailed]))
           ELSE IF ~NeedsResize(f.width, f.height, max_dim)
           THEN Becomes(c, Done([seen_q EXCEPT !.ret = q.path, !.message = MsgOptimal]))
           ELSE \E d \in NewDimensions(f.width, f.height, max_dim) :
                    IF d[1] < 1 \/ d[2] < 1
                    THEN Becomes(c, Done([seen_q EXCEPT !.ret = None,
                                                        !.message = MsgProcessingFailed]))
                    ELSE Becomes(c, [seen_q EXCEPT !.pc = "save", !.new_width = d[1],
                                                   !.new_height = d[2],
                                                   !.target = ProcessedName(q.path)])
        /\ UNCHANGED <<clientVars, promptVars, processVars, pilAvailable, dirExists, files, clock>>

\* resized.save(processed_path): the file is created or truncated ...
Save(c) ==
    LET q == proc[c]
    IN  /\ q.pc = "save"
        /\ files' = [files EXCEPT ![q.target] = FileEntry(0, 0, 0, FALSE, clock)]
        /\ Becomes(c, [q EXCEPT !.pc = "close", !.wrote = @ \cup {q.target}])
        /\ UNCHANGED <<clientVars, promptVars, processVars, pilAvailable, dirExists, clock>>

\* ... and the encoded image is written out; prepare_for_vlm returns the path
Close(c) ==
    LET q == proc[c]
    IN  /\ q.pc = "close"
        /\ files' = [files EXCEPT ![q.target] =
                        FileEntry(MinFileSize, q.new_width, q.new_height, TRUE, clock)]
        /\ Becomes(c, Done([q EXCEPT !.ret = q.target,
                                     !.message = MsgResized(q.width, q.height,
                                                            q.new_width, q.new_height)]))
        /\ UNCHANGED <<clientVars, promptVars, processVars, pilAvailable, dirExists, clock>>

(***************************************************************************)
(* ImageProcessor.list_snapshots and get_latest_snapshot; encode_image     *)
(***************************************************************************)
RECURSIVE Orders(_)
Orders(S) ==
    IF S = {} THEN {<<>>}
    ELSE UNION {{<<x>> \o o : o \in Orders(S \ {x})} : x \in S}

\* file_path.is_file() and file_path.suffix.lower() in SUPPORTED_FORMATS
IsSnapshot(name) ==
    files[name].kind = "file" /\ Lower(Suffix(name)) \in SUPPORTED_FORMATS

\* the (file_path, mtime) tuple appended for an entry
Stamped(name) == <<name, files[name].mtime>>

\* snapshots.sort(key=mtime, reverse=True) is stable; snapshots[0][0] is the
\* first tuple, in listing order, among those with the greatest mtime
LatestSnapshot(snapshots) ==
    IF snapshots = <<>> THEN None
    ELSE LET newest == CHOOSE i \in DOMAIN snapshots :
                 /\ \A j \in DOMAIN snapshots : snapshots[j][2] <= snapshots[i][2]
                 /\ \A j \in 1..(i - 1) : snapshots[j][2] < snapshots[i][2]
         IN  snapshots[newest][1]

\* list_snapshots: self.snapshots_dir.exists()
Scan(c) ==
    LET q == proc[c]
    IN  /\ q.pc = "scan"
        /\ Becomes(c, IF ~dirExists THEN Done([q EXCEPT !.ret = None])
                       ELSE [q EXCEPT !.pc = "sort"])
        /\ UNCHANGED <<clientVars, promptVars, processVars, pilAvailable, dirExists, files, clock>>

\* iterdir(), which yields the entries in an order of the file system's
\* choosing, the loop over them, the sort, and get_latest_snapshot's pick
Sort(c) ==
    LET q == proc[c]
        entries == {n \in FileNames : Parent(n) = <<>> /\ IsSnapshot(n)}
    IN  /\ q.pc = "sort"
        /\ \E o \in Orders(entries) :
            LET snapshots == [i \in DOMAIN o |-> Stamped(o[i])]
            IN  Becomes(c, Done([q EXCEPT !.listing = snapshots,
                                         !.ret = LatestSnapshot(snapshots)]))
        /\ UNCHANGED <<clientVars, promptVars, processVars, pilAvailable, dirExists, files, clock>>

\* what encode_image finds behind a path
FileState(f) ==
    CASE f.kind = "absent" -> "absent"
      [] f.kind = "dir" -> "unreadable"
      [] f.size = 0 -> "empty"
      [] OTHER -> "data"

\* encode_image on a file of the directory: a read, nothing else
Read(c) ==
    LET q == proc[c]
    IN  /\ q.pc = "read"
        /\ Becomes(c, Done([q EXCEPT !.ret = EncodeImage(FileState(files[q.path]))]))
        /\ UNCHANGED <<clientVars, promptVars, processVars, pilAvailable, dirExists, files, clock>>

(***************************************************************************)
(* Calls into the ImageProcessor, and the other actors on the directory    *)
(***************************************************************************)
Calling(op, start, path, max_dimension) ==
    [NoProc EXCEPT !.pc = start, !.op = op, !.path = path, !.max_dim = max_dimension]

CallValidate(W, N) ==
    /\ \E c \in W, n \in N :
        /\ proc[c].pc = "idle"
        /\ Becomes(c, Calling("validate_image", "exists", n, 0))
    /\ UNCHANGED <<clientVars, promptVars, processVars, pilAvailable, dirExists, files, clock>>

CallPrepare(W, N, D) ==
    /\ \E c \in W, n \in N, m \in D :
        /\ proc[c].pc = "idle"
        /\ Becomes(c, Calling("prepare_for_vlm", "exists", n, m))
    /\ UNCHANGED <<clientVars, promptVars, processVars, pilAvailable, dirExists, files, clock>>

CallGetLatest(W) ==
    /\ \E c \in W :
        /\ proc[c].pc = "idle"
        /\ Becomes(c, Calling("get_latest_snapshot", "scan", None, 0))
    /\ UNCHANGED <<clientVars, promptVars, processVars, pilAvailable, dirExists, files, clock>>

CallEncode(W, N) ==
    /\ \E c \in W, n \in N :
        /\ proc[c].pc = "idle"
        /\ Becomes(c, Calling("encode_image", "read", n, 0))
    /\ UNCHANGED <<clientVars, promptVars, processVars, pilAvailable, dirExists, files, clock>>

\* the caller has taken its result
Finished(c) ==
    /\ proc[c].pc = "done"
    /\ Becomes(c, NoProc)
    /\ UNCHANGED <<clientVars, promptVars, processVars, pilAvailable, dirExists, files, clock>>

\* ensure_snapshots_dir
EnsureSnapshotsDir ==
    /\ ~dirExists
    /\ dirExists' = TRUE
    /\ UNCHANGED <<clientVars, promptVars, processVars, pilAvailable, files, proc, clock>>

\* a user or another process deletes one of the originals N
UserRemoves(N) ==
    /\ \E n \in N :
        /\ files[n].kind # "absent"
        /\ files' = [files EXCEPT ![n] = NoEntry]
    /\ UNCHANGED <<clientVars, promptVars, processVars, pilAvailable, dirExists, proc, clock>>

Tick ==
    /\ clock < MaxTime
    /\ clock' = clock + 1
    /\ UNCHANGED <<clientVars, promptVars, processVars, pilAvailable, dirExists, files, proc>>

\* the client and the views at rest
ClientIdle ==
    /\ model = DEFAULT_MODEL
    /\ disk = [p \in Paths |-> "absent"]
    /\ db = <<>>
    /\ Idle
    /\ ProcessIdle

ValidateStep == \E c \in Callers : Exists(c) \/ IsFile(c) \/ Stat(c) \/ Verify(c)

PrepareStep == \E c \in Callers : Open(c) \/ Save(c) \/ Close(c)

(***************************************************************************)
(* One validate_image or prepare_for_vlm call, for every kind of file      *)
(***************************************************************************)
Sizes == {MinFileSize - 1, MinFileSize, MaxFileSize, MaxFileSize + 1}

Pixels == {MinPixels - 1, MinPixels, 1024, 1025, 1536, 3072, 102401}

MaxDimensions == {0, 200, 1536}

Photo == FileEntry(MinFileSize + 1000, 2048, 1536, TRUE, 1)

Entries ==
    {NoEntry, DirEntry(1), [Photo EXCEPT !.intact = FALSE]}
    \cup {[Photo EXCEPT !.size = sz] : sz \in Sizes}
    \cup {[Photo EXCEPT !.width = w, !.height = h] : w \in Pixels, h \in Pixels}

InitPrepare ==
    /\ ClientIdle
    /\ pilAvailable \in BOOLEAN
    /\ dirExists = TRUE
    /\ \E e \in Entries, t \in {Photo, [Photo EXCEPT !.size = MinFileSize - 1]} :
        files = [n \in FileNames |->
                    CASE n = Snapshot1 -> e
                      [] n = Snapshot2 -> Photo
                      [] n = Notes -> t
                      [] n = Upload -> Photo
                      [] OTHER -> NoEntry]
    /\ proc = [c \in Callers |-> NoProc]
    /\ clock = 1

OneValidate == CallValidate({"c1"}, Originals)

OnePrepare == CallPrepare({"c1"}, Originals \cup {Upload}, MaxDimensions)

RemovesAny == UserRemoves(Originals)

NextPrepare ==
    \/ OneValidate
    \/ OnePrepare
    \/ ValidateStep
    \/ PrepareStep
    \/ RemovesAny

SpecPrepare == InitPrepare /\ [][NextPrepare]_vars

(***************************************************************************)
(* Two callers sharing the directory                                       *)
(***************************************************************************)
Thumb == FileEntry(MinFileSize + 1000, 800, 600, TRUE, 1)

SharedEntries == {NoEntry, Thumb, Photo}

SharedMaxDimensions == {0, 1536}

InitImages ==
    /\ ClientIdle
    /\ pilAvailable = TRUE
    /\ proc = [c \in Callers |-> NoProc]
    /\ clock = 1
    /\ \/ /\ dirExists = FALSE
          /\ files = [n \in FileNames |-> NoEntry]
       \/ /\ dirExists = TRUE
          /\ \E e1 \in SharedEntries :
                files = [n \in FileNames |->
                            CASE n = Snapshot1 -> e1
                              [] n = Snapshot2 -> Photo
                              [] n = Notes -> Thumb
                              [] OTHER -> NoEntry]

AnyValidate == CallValidate({"c1"}, {Snapshot1, Notes})

FirstPrepare == CallPrepare({"c1"}, {Snapshot1, Snapshot2}, SharedMaxDimensions)

SecondPrepare == CallPrepare({"c2"}, {Snapshot1}, SharedMaxDimensions)

AnyGetLatest == CallGetLatest({"c1"})

AnyEncode == CallEncode({"c1"}, {Snapshot1, ProcessedName(Snapshot1)})

RemovesFirst == UserRemoves({Snapshot1})

LatestStep == \E c \in Callers : Scan(c) \/ Sort(c)

ReadStep == \E c \in Callers : Read(c)

FinishedStep == \E c \in Callers : Finished(c)

NextImages ==
    \/ AnyValidate
    \/ FirstPrepare
    \/ SecondPrepare
    \/ AnyGetLatest
    \/ AnyEncode
    \/ ValidateStep
    \/ PrepareStep
    \/ LatestStep
    \/ ReadStep
    \/ FinishedStep
    \/ EnsureSnapshotsDir
    \/ RemovesFirst
    \/ Tick

SpecImages == InitImages /\ [][NextImages]_vars

(***************************************************************************)
(* Properties of the client                                                *)
(***************************************************************************)
Sent(r) == \E i \in DOMAIN net : net[i] = r

AnalyzeDone == pc = "done" /\ call.op \in AnalyzeOps

\* C1: analyze_image sends POST /api/generate only after is_available()
\* returned available and encode_image returned a non-empty encoding, in that
\* order; an unavailable probe ends in a failure whose error is the probe's
\* message, a failed encoding in a failure with the load error, and in both
\* cases no POST is sent.
C1_GenerateOnlyAfterProbeAndEncode ==
    call.op \in AnalyzeOps =>
        /\ encoded # Absent => net # <<>> /\ net[1] = GET /\ avail.available
        /\ Sent(POST) => /\ net = <<GET, POST>>
                         /\ avail.available
                         /\ Truthy(encoded)
        /\ (pc = "done" /\ ~avail.available) =>
                /\ result = Failure(avail.message)
                /\ encoded = Absent
                /\ ~Sent(POST)
        /\ (pc = "done" /\ avail.available /\ ~Truthy(encoded)) =>
                /\ result = Failure(<<"Failed to load image: ">> \o PathText(call.path))
                /\ ~Sent(POST)

C1_Witness ==
    /\ AnalyzeDone
    /\ net = <<GET, POST>>
    /\ result.success

\* C2: every result of analyze_image, chat and generate_snapshot_summary has
\* exactly one of response and error non-empty: a success has a non-empty
\* response and no error, a failure a non-empty error and no response.
C2_ExactlyOneOfResponseError ==
    (AnalyzeDone /\ ~raised) =>
        /\ result.success => Truthy(result.response) /\ ~Truthy(result.error)
        /\ ~result.success => Truthy(result.error) /\ ~Truthy(result.response)

EmptyGenerateReply ==
    /\ lastPost.t = "response"
    /\ lastPost.status = 200
    /\ lastPost.body.kind = "object"
    /\ lastPost.body.response \in {Absent, None, <<>>}

\* C3: analyze_image returns a failure and raises nothing when the probe
\* fails, when the image path does not exist, when the backend answers the
\* POST with 500, and when it answers 200 with an empty or absent response
\* field, which is reported as the empty-response failure.
C3_FailureNeverRaises ==
    AnalyzeDone =>
        /\ ~raised
        /\ ~avail.available => ~result.success
        /\ (avail.available /\ encoded = None) => ~result.success /\ ~Sent(POST)
        /\ (lastPost.t = "HTTPError" /\ lastPost.status = 500) => ~result.success
        /\ EmptyGenerateReply =>
                /\ ~result.success
                /\ result.response = None
                /\ result.error = <<"Empty response from Ollama">>

C3_Witness == AnalyzeDone /\ EmptyGenerateReply /\ lastPost.body.response = <<>>

\* C4: a POST that fails in the transport gives a failure result, never an
\* exception: a timeout the timed-out message, a connection failure the
\* lost-connection message, anything else the unexpected-error message.
C4_TransportFailuresClassified ==
    (AnalyzeDone /\ lastPost.t \in {"URLError", "error"}) =>
        /\ ~raised
        /\ ~result.success
        /\ result.response = None
        /\ lastPost = UrlError("timeout") =>
                result.error = <<"Request timed out after ", "1", "2", "0",
                                 "s. Try a simpler question.">>
        /\ lastPost = UrlError("refused") =>
                result.error = <<"Lost connection to Ollama. Is it still running?">>
        /\ lastPost = OtherError =>
                /\ Len(result.error) > 1
                /\ Head(result.error) = "Unexpected error: "

C4_Witness == AnalyzeDone /\ lastPost = UrlError("timeout")

ListingReply ==
    /\ lastGet.t = "response"
    /\ lastGet.status = 200
    /\ lastGet.body.kind = "object"

ListedSet == {lastGet.body.models[i] : i \in DOMAIN lastGet.body.models}
BareSet == {BeforeColon(n) : n \in ListedSet}

ProbeDone == pc = "done" /\ call.op = "is_available"

C6_ProbeFailuresClassified ==
    /\ ~raised
    /\ lastGet # NoTransport =>
        /\ lastGet.t = "HTTPError" =>
                /\ ~avail.available
                /\ Contains(avail.message, Str(lastGet.status))
        /\ lastGet = UrlError("refused") =>
                /\ ~avail.available
                /\ Contains(avail.message, <<"Cannot connect", " to Ollama. Is it running?">>)
        /\ lastGet = UrlError("timeout") =>
                avail = Availability(FALSE, <<"Ollama server timeout">>)
        /\ (lastGet = OtherError \/ (lastGet.t = "response" /\ lastGet.body.kind # "object")) =>
                /\ ~avail.available
                /\ Len(avail.message) > 1
                /\ Head(avail.message) = "Error checking Ollama: "
    /\ (pc = "done" /\ call.op = "chat" /\ lastGet = UrlError("refused")) =>
        /\ ~result.success
        /\ Contains(result.error, <<"Cannot connect">>)

C6_Witness == pc = "done" /\ call.op = "chat" /\ lastGet = UrlError("refused")

(***************************************************************************)
(* Properties of the views                                                 *)
(***************************************************************************)
\* a chat or analyze request that got as far as resolving its snapshot
AnswerRequest ==
    /\ req.op \in {"chat", "analyze"}
    /\ req.json = "object"
    /\ req.op = "chat" => Truthy(Strip(req.question))

NoClientCall == call = NoCall /\ net = <<>> /\ result = NoResult

IsNewest(id) == id \in DOMAIN db /\ \A j \in DOMAIN db : db[j].created <= db[id].created

\* C7: in chat and analyze an explicit snapshot identifier with no
\* matching record gives the "not found" failure, no identifier and no stored
\* snapshot the "no snapshots available" failure, no identifier and a stored
\* snapshot selects the most recently created one; the failures come with no
\* call to the VLM client.
C7_ResolveAnyExplicitId ==
    AnswerRequest =>
        /\ (req.snapshot_id # NoId /\ req.snapshot_id \notin DOMAIN db) =>
                /\ pc = "done"
                /\ resp = ErrorResponse(404, <<"Snapshot ">> \o Str(req.snapshot_id)
                                              \o <<" not found">>)
                /\ NoClientCall
        /\ (req.snapshot_id = NoId /\ db = <<>>) =>
                /\ pc = "done"
                /\ resp.status = 404
                /\ Contains(resp.error, <<"No snapshots available">>)
                /\ NoClientCall
        /\ (req.snapshot_id = NoId /\ db # <<>>) => IsNewest(snap)

\* C7 for every identifier but 0, which the views take for no identifier.
C7_ResolveNonZeroId ==
    AnswerRequest =>
        /\ (req.snapshot_id \notin {NoId, 0} /\ req.snapshot_id \notin DOMAIN db) =>
                /\ pc = "done"
                /\ resp = ErrorResponse(404, <<"Snapshot ">> \o Str(req.snapshot_id)
                                              \o <<" not found">>)
                /\ NoClientCall
        /\ (req.snapshot_id \in {NoId, 0} /\ db = <<>>) =>
                /\ pc = "done"
                /\ resp.status = 404
                /\ Contains(resp.error, <<"No snapshots available">>)
                /\ NoClientCall
        /\ (req.snapshot_id \in {NoId, 0} /\ db # <<>>) => IsNewest(snap)

\* C8: in chat and analyze, a resolved snapshot whose image file is not on
\* disk ends the request in a failure whose message is neither the
\* snapshot-not-found nor the no-snapshots message, with no call to the VLM
\* client.
C8_MissingImageIsTerminal ==
    (req.op \in {"chat", "analyze"} /\ snap # 0 /\ seen = "absent") =>
        /\ pc = "done"
        /\ resp.success = "false"
        /\ Truthy(resp.error)
        /\ \A i \in RequestIds \ {NoId} :
                resp.error # <<"Snapshot ">> \o Str(i) \o <<" not found">>
        /\ ~Contains(resp.error, <<"No snapshots available">>)
        /\ NoClientCall

C8_Witness == pc = "done" /\ req.op = "analyze" /\ snap # 0 /\ seen = "absent"

\* C9: in chat, analyze, summarize-on-save and regenerate the stages run in
\* the order RESOLVE_SNAPSHOT, VALIDATE_IMAGE, BUILD_PROMPT, CALL_VLM, so no
\* request, probe or generation, is sent to the backend for a snapshot whose
\* image file is missing: whenever a request goes out, the file is there or
\* the invocation confirmed (or wrote) it before it was removed.
C9_NoRequestForMissingImage ==
    [][(req.op # "" /\ net' # net /\ disk[snap] = "absent") =>
        seen \in {"data", "empty", "unreadable", "written"}]_vars

\* C10: when the VLM client returns a failure, chat, analyze and regenerate
\* answer success=false with the client's error message unchanged.
C10_ClientFailureSurfaced ==
    (/\ pc = "done"
     /\ req.op \in {"chat", "analyze", "regenerate"}
     /\ call # NoCall
     /\ ~raised
     /\ ~result.success) =>
        /\ resp.success = "false"
        /\ resp.error = result.error

PipelineOps == {"chat", "analyze", "save_snapshot", "regenerate"}

Count(r) == Cardinality({i \in DOMAIN net : net[i] = r})

\* C11: one invocation of chat, analyze, summarize-on-save or regenerate sends
\* at most one POST /api/generate and sends nothing after a failed one (a new
\* attempt takes a new invocation); the page views send nothing at all.
C11_AtMostOneGenerate ==
    /\ req.op \in PipelineOps =>
            /\ Count(POST) <= 1
            /\ Count(GET) <= 1
            /\ Sent(POST) => pc = "done" /\ net[Len(net)] = POST
    /\ req.op \in PageOps => net = <<>> /\ call = NoCall /\ pc = "done"

C11_Witness ==
    /\ req.op = "regenerate"
    /\ pc = "done"
    /\ Sent(POST)
    /\ ~raised
    /\ ~result.success

\* the summarize step has completed for the row snap
Summarized ==
    /\ pc = "done"
    /\ req.op \in {"save_snapshot", "regenerate"}
    /\ call # NoCall
    /\ ~raised

\* C12: after the summarize step, on save or on regenerate, a success leaves
\* ai_summary equal to the returned text, ai_analyzed true and
\* ai_analysis_error empty; a failure leaves ai_analyzed true and
\* ai_analysis_error equal to the VLM error message.
C12_SummaryRecorded ==
    Summarized =>
        /\ result.success =>
                /\ db[snap].ai_summary = result.response
                /\ db[snap].ai_analyzed
                /\ db[snap].ai_analysis_error = <<>>
        /\ ~result.success =>
                /\ db[snap].ai_analyzed
                /\ db[snap].ai_analysis_error = result.error

\* C12 for every result but a failure whose error is null
C12_SummaryRecordedUnlessNull ==
    Summarized =>
        /\ result.success =>
                /\ db[snap].ai_summary = result.response
                /\ db[snap].ai_analyzed
                /\ db[snap].ai_analysis_error = <<>>
        /\ (~result.success /\ result.error # None) =>
                /\ db[snap].ai_analyzed
                /\ db[snap].ai_analysis_error = result.error

\* C13: only the summarize path writes to a snapshot record: a chat or
\* analyze invocation, whether it succeeds or fails, leaves ai_summary,
\* ai_analyzed and ai_analysis_error unchanged.
C13_ChatAnalyzeWriteNothing ==
    [][req.op \in {"chat", "analyze"} => db' = db]_vars

\* an analyze invocation ends in a success for a row that has no summary yet
AnalyzeFillsSummary ==
    /\ req.op = "analyze"
    /\ pc # "done"
    /\ pc' = "done"
    /\ ~raised'
    /\ result'.success
    /\ ~Truthy(db[snap].ai_summary)

\* C13 as amended: chat writes nothing; analyze writes nothing on a failure
\* or for a row that has a summary, and on a success for a row without one
\* sets ai_summary to the returned text and ai_analyzed to true, leaving
\* ai_analysis_error and every other row alone.
C13_OnlyAnalyzeFillsEmptySummary ==
    [][req.op \in {"chat", "analyze"} =>
        IF AnalyzeFillsSummary
        THEN db' = [db EXCEPT ![snap].ai_summary = result'.response,
                              ![snap].ai_analyzed = TRUE]
        ELSE db' = db]_vars

\* analyze has succeeded on a row whose summarize step had failed, and the
\* row carries the returned text as its summary
C13_Witness ==
    /\ pc = "done"
    /\ req.op = "analyze"
    /\ result.success
    /\ Truthy(result.response)
    /\ db[snap].ai_summary = result.response
    /\ db[snap].ai_analyzed
    /\ Truthy(db[snap].ai_analysis_error)

(***************************************************************************)
(* Properties of the image processor                                       *)
(***************************************************************************)
Preparing(c) == proc[c].op = "prepare_for_vlm"

\* C14: two concurrent prepare_for_vlm calls on the same source that both
\* resize write to distinct derivative file names, so that the derivative a
\* call has returned is intact and is the one that call wrote, whatever the
\* other call does.
C14_DistinctDerivatives ==
    \A c \in Callers : \A d \in Callers \ {c} :
        /\ (/\ Preparing(c) /\ Preparing(d)
            /\ proc[c].path = proc[d].path
            /\ proc[c].target # None /\ proc[d].target # None) =>
                proc[c].target # proc[d].target
        /\ (/\ Preparing(c) /\ Preparing(d)
            /\ proc[c].pc = "done"
            /\ proc[c].ret \in Derivatives) =>
                /\ files[proc[c].ret].intact
                /\ files[proc[c].ret].width = proc[c].new_width
                /\ files[proc[c].ret].height = proc[c].new_height

\* C15: whatever validate_image, prepare_for_vlm, get_latest_snapshot and
\* encode_image calls are made, no step of theirs deletes, renames or
\* rewrites an original: an original changes only when a user removes it.
C15_OriginalsUntouched ==
    [][RemovesFirst \/ \A n \in Originals : files'[n] = files[n]]_vars

C15_Witness ==
    \E c \in Callers :
        /\ Preparing(c)
        /\ proc[c].pc = "done"
        /\ proc[c].ret = ProcessedName(proc[c].path)
        /\ files[proc[c].ret].intact
        /\ files[proc[c].path] = Photo

\* the one call of the single-call specification
TheCall == proc["c1"]

Source == files[TheCall.path]

Prepared ==
    TheCall.pc = "done" /\ TheCall.op = "prepare_for_vlm" /\ ~TheCall.raised

\* C16: for a valid image whose longer side is at most the max dimension,
\* prepare_for_vlm returns the original path with a no-resize message and
\* writes no file.
C16_SmallImageReturnedAsIs ==
    (/\ Prepared /\ TheCall.ok
     /\ Source.kind = "file" /\ Source.intact
     /\ Source.width <= MaxDim(TheCall.max_dim)
     /\ Source.height <= MaxDim(TheCall.max_dim)) =>
        /\ TheCall.ret = TheCall.path
        /\ TheCall.message \in {<<"Image already optimal size">>,
                                <<"PIL not available, using original image">>}
        /\ pilAvailable => TheCall.message = <<"Image already optimal size">>
        /\ TheCall.wrote = {}
        /\ \A n \in Derivatives : files[n] = NoEntry

C16_Witness ==
    /\ Prepared /\ TheCall.ok /\ pilAvailable
    /\ Source.kind = "file"
    /\ Source.width = MaxDim(TheCall.max_dim)
    /\ Source.height < Source.width
    /\ TheCall.ret = TheCall.path

Longer(f) == IF f.width > f.height THEN f.width ELSE f.height
Shorter(f) == IF f.width > f.height THEN f.height ELSE f.width
Distance(a, b) == IF a > b THEN a - b ELSE b - a

\* the derivative has the longer side at the max dimension and the shorter
\* side within one pixel of shorter * max / longer
KeepsAspect(derived, original, max_dim) ==
    /\ derived.kind = "file"
    /\ derived.intact
    /\ Distance(Longer(derived), max_dim) <= 1
    /\ Distance(Shorter(derived) * Longer(original), Shorter(original) * max_dim)
            <= Longer(original)
    /\ (original.width > original.height) => derived.width >= derived.height
    /\ (original.width < original.height) => derived.width <= derived.height

\* C17: for a valid image whose longer side exceeds the max dimension,
\* prepare_for_vlm returns a derivative whose longer side is the max
\* dimension and whose shorter side is within one pixel of
\* shorter * max / longer (here: where PIL is available, which the resize
\* needs).
C17_DerivativeKeepsAspect ==
    (/\ Prepared /\ TheCall.ok /\ pilAvailable
     /\ Source.kind = "file" /\ Source.intact
     /\ Longer(Source) > MaxDim(TheCall.max_dim)) =>
        /\ TheCall.ret = ProcessedName(TheCall.path)
        /\ KeepsAspect(files[TheCall.ret], Source, MaxDim(TheCall.max_dim))

\* C17 for the images whose shorter side stays above one pixel
C17_DerivativeKeepsAspectAboveOnePixel ==
    (/\ Prepared /\ TheCall.ok /\ pilAvailable
     /\ Source.kind = "file" /\ Source.intact
     /\ Longer(Source) > MaxDim(TheCall.max_dim)
     /\ Shorter(Source) * MaxDim(TheCall.max_dim) > Longer(Source)) =>
        /\ TheCall.ret = ProcessedName(TheCall.path)
        /\ KeepsAspect(files[TheCall.ret], Source, MaxDim(TheCall.max_dim))

Validated ==
    TheCall.pc = "done" /\ TheCall.op = "validate_image" /\ ~TheCall.raised

\* C18: validate_image returns ok=false for every file smaller than 1000
\* bytes or larger than 50,000,000 bytes, whatever its extension, and its
\* size check accepts exactly the sizes 1000..50,000,000.
C18_SizeRange ==
    (Validated /\ Source.kind = "file") =>
        /\ (Source.size < 1000 \/ Source.size > 50000000) => ~TheCall.ok
        /\ TheCall.message = <<"Image file too small, might be corrupted">> =>
                Source.size < 1000
        /\ TheCall.message = <<"Image file too large for processing">> =>
                Source.size > 50000000
        /\ (/\ Lower(Suffix(TheCall.path)) \in SUPPORTED_FORMATS
            /\ Source.size < 1000) =>
                TheCall.message = <<"Image file too small, might be corrupted">>
        /\ (/\ Lower(Suffix(TheCall.path)) \in SUPPORTED_FORMATS
            /\ Source.size > 50000000) =>
                TheCall.message = <<"Image file too large for processing">>
        /\ (Source.size \in {1000, 50000000} /\ Source.intact
            /\ Lower(Suffix(TheCall.path)) \in SUPPORTED_FORMATS) => TheCall.ok

C18_Witness ==
    /\ Validated
    /\ Source.kind = "file"
    /\ Source.size = 1000
    /\ TheCall.ok

\* C19: validate_image returns (false, reason) and never raises, whatever the
\* path is and also when the file is removed between the existence check
\* and the size check; prepare_for_vlm, when validation fails, returns no
\* path with validate_image's message and writes nothing.
C19_PreparerIsTotal ==
    /\ ~TheCall.raised
    /\ (TheCall.pc = "done" /\ TheCall.op = "validate_image") =>
            TheCall.message # None
    /\ (TheCall.pc = "done" /\ TheCall.op = "prepare_for_vlm" /\ ~TheCall.ok) =>
            /\ TheCall.ret = None
            /\ TheCall.message # None
            /\ TheCall.wrote = {}

\* C19 for the calls during which nobody removes the file
C19_PreparerIsTotalUndisturbed ==
    (TheCall.pc = "done" /\ Source.kind # "absent") =>
        /\ ~TheCall.raised
        /\ TheCall.message # None
        /\ (TheCall.op = "prepare_for_vlm" /\ ~TheCall.ok) =>
                TheCall.ret = None /\ TheCall.wrote = {}

Range(xs) == {xs[i] : i \in DOMAIN xs}

Found ==
    /\ proc["c1"].pc = "done"
    /\ proc["c1"].op = "get_latest_snapshot"
    /\ ~proc["c1"].raised

\* C20: get_latest_snapshot returns None when the directory is missing or
\* has no file with a supported extension; otherwise it returns one of those
\* files with the greatest modification time, and the same files give the
\* same result in whatever order the directory listing yields them.
C20_LatestIsDeterministic ==
    Found =>
        LET seen_files == Range(proc["c1"].listing)
        IN  /\ seen_files = {} => proc["c1"].ret = None
            /\ seen_files # {} =>
                    \E s \in seen_files :
                        /\ s[1] = proc["c1"].ret
                        /\ Lower(Suffix(s[1])) \in SUPPORTED_FORMATS
                        /\ \A t \in seen_files : t[2] <= s[2]
            /\ \A o \in Orders(seen_files) : LatestSnapshot(o) = proc["c1"].ret

\* C20 without the tie-break: None, or a newest supported file
C20_LatestIsNewest ==
    Found =>
        LET seen_files == Range(proc["c1"].listing)
        IN  /\ seen_files = {} => proc["c1"].ret = None
            /\ seen_files # {} =>
                    \E s \in seen_files :
                        /\ s[1] = proc["c1"].ret
                        /\ Lower(Suffix(s[1])) \in SUPPORTED_FORMATS
                        /\ \A t \in seen_files : t[2] <= s[2]

(***************************************************************************)
(* Further properties of the client, the views and the image processor     *)
(***************************************************************************)
WebOps == {"chat", "analyze", "regenerate"}

\* the view called the client and the client returned a failure result
ClientFailed == call # NoCall /\ ~raised /\ ~result.success

\* C23: chat, analyze and regenerate answer 404 for a snapshot that is not
\* found, for no snapshot available and for a missing image; 400 for an
\* empty question, for regenerate without snapshot_id and for a malformed
\* JSON body; 500 for every failure result of the VLM client; and every 400
\* or 404 is answered without a call to the client.
C23_StatusCodes ==
    (pc = "done" /\ req.op \in WebOps) =>
        /\ req.json = "malformed" => resp.status = 400
        /\ (req.json = "object" /\ req.op = "chat" /\ ~Truthy(Strip(req.question))) =>
                resp.status = 400
        /\ (req.json = "object" /\ req.op = "regenerate" /\ req.snapshot_id = NoId) =>
                resp.status = 400
        /\ (/\ req.json = "object"
            /\ req.op = "chat" => Truthy(Strip(req.question))
            /\ IdTruthy(req.snapshot_id)
            /\ req.snapshot_id \notin DOMAIN db) => resp.status = 404
        /\ (/\ req.json = "object"
            /\ req.op = "chat" => Truthy(Strip(req.question))
            /\ req.op # "regenerate"
            /\ req.snapshot_id = NoId
            /\ db = <<>>) => resp.status = 404
        /\ seen = "absent" => resp.status = 404
        /\ ClientFailed => resp.status = 500
        /\ resp.status \in {400, 404} => call = NoCall /\ net = <<>>

\* C23 for chat and analyze
C23_StatusCodesChatAnalyze ==
    (pc = "done" /\ req.op \in {"chat", "analyze"}) =>
        /\ req.json = "malformed" => resp.status = 400
        /\ (req.json = "object" /\ req.op = "chat" /\ ~Truthy(Strip(req.question))) =>
                resp.status = 400
        /\ (/\ req.json = "object"
            /\ req.op = "chat" => Truthy(Strip(req.question))
            /\ IdTruthy(req.snapshot_id)
            /\ req.snapshot_id \notin DOMAIN db) => resp.status = 404
        /\ (/\ req.json = "object"
            /\ req.op = "chat" => Truthy(Strip(req.question))
            /\ req.snapshot_id = NoId
            /\ db = <<>>) => resp.status = 404
        /\ seen = "absent" => resp.status = 404
        /\ ClientFailed => resp.status = 500
        /\ resp.status \in {400, 404} => call = NoCall /\ net = <<>>

NonOkReply ==
    /\ lastPost.t \in {"response", "HTTPError"}
    /\ lastPost.status # 200

CarriesErrorString(body) ==
    body.kind = "object" /\ body.error \notin {Absent, None}

\* C24: for a non-200 answer to the generation request, analyze_image
\* returns a failure whose error is the 'error' string of the body when the
\* body parses and carries one, and the message with the status code
\* otherwise; it neither raises nor returns a success.
C24_ErrorExtracted ==
    (AnalyzeDone /\ NonOkReply) =>
        /\ ~raised
        /\ ~result.success
        /\ result.response = None
        /\ result.error = IF CarriesErrorString(lastPost.body)
                          THEN lastPost.body.error
                          ELSE <<"Ollama returned status ">> \o Str(lastPost.status)

\* C24 for the bodies whose 'error' entry is not null
C24_ErrorExtractedUnlessNull ==
    (AnalyzeDone /\ NonOkReply /\ lastPost.body.error # None) =>
        /\ ~raised
        /\ ~result.success
        /\ result.response = None
        /\ result.error = IF CarriesErrorString(lastPost.body)
                          THEN lastPost.body.error
                          ELSE <<"Ollama returned status ">> \o Str(lastPost.status)

\* C28: whatever save-snapshot, chat, analyze and regenerate operations have
\* run, with whatever VLM outcomes, every snapshot with a non-empty
\* ai_summary has ai_analyzed = true.
C28_SummaryImpliesAnalyzed ==
    \A i \in DOMAIN db : Truthy(db[i].ai_summary) => db[i].ai_analyzed

C28_Witness ==
    /\ pc = "done"
    /\ req.op \in {"analyze", "regenerate", "save_snapshot"}
    /\ snap \in DOMAIN db
    /\ result.success
    /\ Truthy(db[snap].ai_summary)

\* the step on which the summarize call of save_snapshot or regenerate ends
\* in a failure, by a failure result or by an exception
SummarizeFails ==
    /\ pc # "done" /\ pc' = "done"
    /\ req.op \in {"save_snapshot", "regenerate"}
    /\ call # NoCall
    /\ raised' \/ ~result'.success

\* C29: a summarize or regenerate invocation whose VLM call fails leaves the
\* snapshot's ai_summary as it was: only ai_analyzed and ai_analysis_error of
\* that row are written.
C29_FailureKeepsSummary ==
    [][SummarizeFails =>
        \E a \in BOOLEAN :
            db' = [db EXCEPT ![snap].ai_analyzed = a,
                             ![snap].ai_analysis_error = db'[snap].ai_analysis_error]]_vars

C29_Witness ==
    /\ pc = "done"
    /\ req.op = "regenerate"
    /\ ClientFailed
    /\ Truthy(db[snap].ai_summary)
    /\ Truthy(db[snap].ai_analysis_error)

\* C27: when prepare_for_vlm resizes, it writes the derivative in the
\* directory of the source image under the name processed_<source name>,
\* also for a source outside snapshots_dir, and returns the path of that
\* file.
C27_DerivativeBesideSource ==
    (Prepared /\ TheCall.ret \notin {None, TheCall.path}) =>
        /\ TheCall.ret = Parent(TheCall.path) \o <<"processed_">> \o Name(TheCall.path)
        /\ TheCall.wrote = {TheCall.ret}
        /\ files[TheCall.ret].kind = "file"
        /\ files[TheCall.ret].intact

\* C27 for the sources inside snapshots_dir
C27_DerivativeBesideSnapshot ==
    (Prepared /\ TheCall.ret \notin {None, TheCall.path} /\ Parent(TheCall.path) = <<>>) =>
        /\ TheCall.ret = Parent(TheCall.path) \o <<"processed_">> \o Name(TheCall.path)
        /\ TheCall.wrote = {TheCall.ret}
        /\ files[TheCall.ret].kind = "file"
        /\ files[TheCall.ret].intact

\* C30: after any prepare_for_vlm and get_latest_snapshot calls,
\* get_latest_snapshot returns an original snapshot: never a processed_
\* derivative that prepare_for_vlm wrote.
C30_LatestIsAnOriginal ==
    Found => proc["c1"].ret \notin Derivatives


(***************************************************************************)
(* The chat prompt: chat called directly with a question and a context     *)
(***************************************************************************)
ChatQuestions == {<<"q">>, <<"Is", " gold", " rising?">>}

\* prices in thousandths
Prices == {1999, 23456, 75004}

Gold == Commodity("Gold", TRUE, 1999)
Silver == Commodity("Silver", TRUE, 23456)
Oil == Commodity("Oil", TRUE, 75004)
Unpriced == Commodity("Copper", FALSE, 0)

CsvKeys == {"latest_date", "commodities", "data_points", "date_range"}

\* what get_csv_context returns when the CSV has rows
CsvContext == Context(CsvKeys, "2024-01-15", <<Gold, Silver, Oil>>)

Contexts ==
    {NoContext,
     CsvContext,
     Context(CsvKeys, "2024-01-15", <<Oil, Gold>>),
     Context(CsvKeys, "2024-01-16", <<>>),
     Context({}, "", <<>>),
     Context({"data_points"}, "", <<>>),
     Context({"commodities"}, "", <<Silver, Gold>>),
     Context({"latest_date"}, "2024-01-15", <<>>),
     Context(CsvKeys, "2024-01-15", <<Gold, Unpriced, Oil>>)}

\* client.chat(question, path, context), for the questions Q and contexts C
CallChat(Q, C) ==
    /\ pc = "idle"
    /\ \E q \in Q, c \in C :
        /\ pc' = "probe"
        /\ call' = [op |-> "chat", path |-> 1]
        /\ args' = ChatArgs(q, c)
    /\ UNCHANGED <<imageVars, processVars, payload, model, disk, db, req, snap, seen, resp,
                   avail, encoded, result, raised, net, lastGet, lastPost>>

ChatCall == CallChat(ChatQuestions, Contexts)

InitPrompt ==
    /\ model = DEFAULT_MODEL
    /\ disk = [p \in Paths |-> "data"]
    /\ db = <<>>
    /\ Idle
    /\ ImagesIdle
    /\ ProcessIdle

NextPrompt ==
    \/ ChatCall
    \/ PipeProbe
    \/ Encode
    \/ PipePost
    \/ Return

SpecPrompt == InitPrompt /\ [][NextPrompt]_vars

\* a TabularContext: it has its latest date and its commodities, and every
\* commodity has a price
TabularContext(c) ==
    /\ ~c.none
    /\ {"latest_date", "commodities"} \subseteq c.keys
    /\ \A i \in DOMAIN c.commodities : c.commodities[i].has_price

PriceText(price) ==
    CASE price = 1999 -> <<"2", ".", "0", "0">>
      [] price = 23456 -> <<"2", "3", ".", "4", "6">>
      [] price = 75004 -> <<"7", "5", ".", "0", "0">>

\* the price lines of the commodities 1..n, each ended by a line break
RECURSIVE PriceBlock(_, _)
PriceBlock(commodities, n) ==
    IF n = 0 THEN <<>>
    ELSE PriceBlock(commodities, n - 1)
         \o <<"- ", commodities[n].name, ": $">> \o PriceText(commodities[n].price)
         \o <<"\n">>

QuestionBlock(question) ==
    <<"User Question: ">> \o question \o <<"\n", "\n">>
    \o <<"Analyze the dashboard image to answer this question.", "\n",
         "Be specific about what you observe in the charts and KPI cards.", "\n",
         "If the question asks about correlations, compare the trend lines.">>

EndsWith(text, tail) ==
    /\ Len(tail) <= Len(text)
    /\ SubSeq(text, Len(text) - Len(tail) + 1, Len(text)) = tail

ChatInFlight == call # NoCall /\ call.op = "chat"

\* C21: the prompt of a chat always ends with the line of the question, a
\* blank line and the closing instructions; without a context it is nothing
\* but that; with a tabular context it is the header line, the as-of date
\* line, one price line per commodity in the order of the mapping, a blank
\* line, and then the question and the instructions.
C21_ChatPrompt ==
    ChatInFlight =>
        /\ EndsWith(args.prompt, QuestionBlock(args.question))
        /\ args.context.none => args.prompt = QuestionBlock(args.question)
        /\ TabularContext(args.context) =>
              args.prompt =
                  <<"Dashboard Context:", "\n",
                    "- Data as of: ", args.context.latest_date, "\n">>
                  \o PriceBlock(args.context.commodities, Len(args.context.commodities))
                  \o <<"\n">>
                  \o QuestionBlock(args.question)

C21_Witness ==
    /\ ChatInFlight
    /\ pc = "done"
    /\ ~raised
    /\ result.success
    /\ TabularContext(args.context)
    /\ Len(args.context.commodities) = 3
    /\ payload = FINANCIAL_ANALYST_SYSTEM \o <<"\n\n">> \o args.prompt

(***************************************************************************)
(* The analysis prompt: vlm_analyze for every analysis_type                *)
(***************************************************************************)
AnalysisTypes ==
    {Absent, None, <<"full">>, <<"summary">>, <<"trends">>, <<"correlation">>,
     <<"volatility">>, <<"TRENDS">>}

AnalyzeRequest == AnalyzeView(AnalysisTypes)

NextAnalyze ==
    \/ SaveSnapshot
    \/ AnalyzeRequest
    \/ PipeProbe
    \/ Encode
    \/ PipePost
    \/ Return

SpecAnalyze == Init /\ [][NextAnalyze]_vars

AnalyzeInFlight == req # NoReq /\ req.op = "analyze" /\ call # NoCall

TrendsOfAllCommodities ==
    <<"Analyze the ", "all commodities", " price trend shown in this dashboard. ...">>

CorrelationOfGoldAndOil ==
    <<"Analyze the correlation between ", "gold", " and ", "oil",
      " based on the charts in this dashboard. ...">>

SelectedTemplate ==
    IF args.analysis_type = <<"trends">> THEN TrendsOfAllCommodities
    ELSE IF args.analysis_type = <<"correlation">> THEN CorrelationOfGoldAndOil
    ELSE IF args.analysis_type = <<"volatility">> THEN VOLATILITY_ANALYSIS_PROMPT
    ELSE DETAILED_ANALYSIS_PROMPT

\* C22: an analyze request calls the client with the trend template of "all
\* commodities" for 'trends', the correlation template of gold and oil for
\* 'correlation', the volatility template for 'volatility' and the detailed
\* analysis for every other kind, with the persona as system prompt; what is
\* posted is the persona, a blank line and that prompt.
C22_AnalysisPrompt ==
    AnalyzeInFlight =>
        /\ args.system_prompt = FINANCIAL_ANALYST_SYSTEM
        /\ args.prompt = SelectedTemplate
        /\ payload # NoPayload =>
              payload = FINANCIAL_ANALYST_SYSTEM \o <<"\n\n">> \o SelectedTemplate

C22_Witness ==
    /\ AnalyzeInFlight
    /\ args.analysis_type = <<"volatility">>
    /\ pc = "done"
    /\ ~raised
    /\ result.success
    /\ payload = FINANCIAL_ANALYST_SYSTEM \o <<"\n\n">> \o VOLATILITY_ANALYSIS_PROMPT


(***************************************************************************)
(* Threads of one process: get_vlm_client, and analyze_image on the client *)
(* it returns                                                              *)
(***************************************************************************)
ThreadBecomes(t, th) == thread' = [thread EXCEPT ![t] = th]

\* a thread calls get_vlm_client()
CallGetVlmClient(t) ==
    /\ thread[t].pc = "idle"
    /\ ThreadBecomes(t, [thread[t] EXCEPT !.pc = "check", !.op = "get_vlm_client"])
    /\ UNCHANGED <<clientVars, imageVars, promptVars, config, default_client, constructed>>

\* if _default_client is None:
GetVlmClientCheck(t) ==
    /\ thread[t].pc = "check"
    /\ ThreadBecomes(t, [thread[t] EXCEPT
                        !.seen_none = (default_client = 0),
                        !.pc = IF default_client = 0 THEN "construct" ELSE "return"])
    /\ UNCHANGED <<clientVars, imageVars, promptVars, config, default_client, constructed>>

\* _default_client = OllamaVLMClient()
GetVlmClientConstruct(t) ==
    /\ thread[t].pc = "construct"
    /\ constructed' = constructed + 1
    /\ default_client' = constructed + 1
    /\ ThreadBecomes(t, [thread[t] EXCEPT !.pc = "return"])
    /\ UNCHANGED <<clientVars, imageVars, promptVars, config>>

\* return _default_client
GetVlmClientReturn(t) ==
    /\ thread[t].pc = "return"
    /\ ThreadBecomes(t, [thread[t] EXCEPT !.pc = "idle", !.op = "", !.client = default_client])
    /\ UNCHANGED <<clientVars, imageVars, promptVars, config, default_client, constructed>>

\* a thread calls analyze_image(path, ...) on the client it holds
CallSharedAnalyze(t) ==
    /\ thread[t].pc = "idle"
    /\ thread[t].client # 0
    /\ \E p \in Paths :
        ThreadBecomes(t, [thread[t] EXCEPT !.pc = "probe", !.op = "analyze_image", !.path = p])
    /\ UNCHANGED <<clientVars, imageVars, promptVars, config, default_client, constructed>>

\* the thread that called analyze_image has its result
SharedReturn(t) ==
    /\ thread[t].pc = "done"
    /\ ThreadBecomes(t, [NoThread EXCEPT !.client = thread[t].client])
    /\ UNCHANGED <<clientVars, imageVars, promptVars, config, default_client, constructed>>

\* what a step of analyze_image leaves in the thread: it raised, or returned
\* a result, or goes on
Stepped(me, out, next, failure) ==
    IF out.exc # "" THEN [me EXCEPT !.pc = "done", !.raised = TRUE]
    ELSE IF next = "done" THEN [me EXCEPT !.pc = "done", !.result = failure]
    ELSE [me EXCEPT !.pc = next]

\* analyze_image keeping the last availability on the client, for every
\* caller to read
AnalyzeImageStepCached(t, G, P) ==
    LET me == thread[t]
    IN  /\ me.op = "analyze_image"
        /\ \/ /\ me.pc = "probe"
              /\ \E raw \in G :
                    LET others == {u \in Threads \ {t} : thread[u].get # NoTransport}
                        out == IF others = {} THEN IsAvailable(model, raw)
                               ELSE IsAvailable(model, thread[CHOOSE u \in others : TRUE].get)
                    IN  ThreadBecomes(t, Stepped([me EXCEPT !.get = raw, !.avail = out.val],
                                            out, AfterProbe(out.val),
                                            Failure(out.val.message)))
           \/ /\ me.pc = "encode"
              /\ LET image_b64 == EncodeImage(disk[me.path])
                 IN  ThreadBecomes(t, Stepped([me EXCEPT !.file = disk[me.path],
                                                    !.encoded = image_b64],
                                         Ret(image_b64), AfterEncode(image_b64),
                                         Failure(MsgLoadFailed(me.path))))
           \/ /\ me.pc = "post"
              /\ \E raw \in P :
                    LET out == Generate(model, raw)
                    IN  ThreadBecomes(t, Stepped([me EXCEPT !.post = raw], out,
                                            AfterGenerate(out), out.val))
        /\ UNCHANGED <<clientVars, imageVars, promptVars, config, default_client,
                       constructed>>

\* analyze_image in a thread, its GET answered from G and its POST from P:
\* is_available(), encode_image(image_path), requests.post(...)
AnalyzeImageStep(t, G, P) ==
    LET me == thread[t]
    IN  /\ me.op = "analyze_image"
        /\ \/ /\ me.pc = "probe"
              /\ \E raw \in G :
                    LET out == IsAvailable(model, raw)
                    IN  ThreadBecomes(t, Stepped([me EXCEPT !.get = raw, !.avail = out.val],
                                            out, AfterProbe(out.val),
                                            Failure(out.val.message)))
           \/ /\ me.pc = "encode"
              /\ LET image_b64 == EncodeImage(disk[me.path])
                 IN  ThreadBecomes(t, Stepped([me EXCEPT !.file = disk[me.path],
                                                    !.encoded = image_b64],
                                         Ret(image_b64), AfterEncode(image_b64),
                                         Failure(MsgLoadFailed(me.path))))
           \/ /\ me.pc = "post"
              /\ \E raw \in P :
                    LET out == Generate(model, raw)
                    IN  ThreadBecomes(t, Stepped([me EXCEPT !.post = raw], out,
                                            AfterGenerate(out), out.val))
        /\ UNCHANGED <<clientVars, imageVars, promptVars, config, default_client,
                       constructed>>

InitProcess ==
    /\ model = DEFAULT_MODEL
    /\ disk = [p \in Paths |-> IF p = 1 THEN "data" ELSE "absent"]
    /\ db = <<>>
    /\ Idle
    /\ ImagesIdle
    /\ config = Config(DEFAULT_HOST, DEFAULT_TIMEOUT)
    /\ default_client = 0
    /\ constructed = 0
    /\ thread = [t \in Threads |-> NoThread]

GetClientCall == \E t \in Threads : CallGetVlmClient(t)

GetClientCheck == \E t \in Threads : GetVlmClientCheck(t)

GetClientConstruct == \E t \in Threads : GetVlmClientConstruct(t)

GetClientReturn == \E t \in Threads : GetVlmClientReturn(t)

SharedCall == \E t \in Threads : CallSharedAnalyze(t)

SharedStep == \E t \in Threads : AnalyzeImageStep(t, PipeGetOutcomes, PipePostOutcomes)

SharedDone == \E t \in Threads : SharedReturn(t)

NextProcess ==
    \/ GetClientCall
    \/ GetClientCheck
    \/ GetClientConstruct
    \/ GetClientReturn
    \/ SharedCall
    \/ SharedStep
    \/ SharedDone

SpecProcess == InitProcess /\ [][NextProcess]_vars

\* what analyze_image gives for a path, the file there and the replies to its
\* own GET and POST
OwnOutcome(path, get, post) ==
    LET av == IsAvailable(model, get)
        image_b64 == EncodeImage(disk[path])
    IN  IF av.exc # "" THEN Raise(av.exc)
        ELSE IF ~av.val.available THEN Ret(Failure(av.val.message))
        ELSE IF ~Truthy(image_b64) THEN Ret(Failure(MsgLoadFailed(path)))
        ELSE Generate(model, post)

HasOwnOutcome(th) ==
    LET out == OwnOutcome(th.path, th.get, th.post)
    IN  /\ th.raised = (out.exc # "")
        /\ ~th.raised => th.result = out.val

\* C25: no step of a thread changes the model, host, timeout or endpoint
\* URLs of the client, and whatever the threads' steps interleave to, the
\* result a thread's analyze_image ends with is the one its own path and the
\* replies to its own GET and POST give.
C25_ClientIsStateless ==
    [][/\ model' = model
       /\ config' = config
       /\ \A t \in Threads :
             (thread'[t].op = "analyze_image" /\ thread'[t].pc = "done")
                 => HasOwnOutcome(thread'[t])]_vars

\* both threads are in analyze_image on the same client, one of them done
\* with a success while the other, refused by its own probe, has failed
C25_Witness ==
    /\ thread["t1"].client = thread["t2"].client
    /\ thread["t1"].op = "analyze_image" /\ thread["t1"].pc = "done"
    /\ thread["t2"].op = "analyze_image" /\ thread["t2"].pc = "done"
    /\ thread["t1"].result.success
    /\ ~thread["t2"].result.success
    /\ thread["t2"].get # thread["t1"].get
    /\ thread["t1"].path = thread["t2"].path

\* C26: get_vlm_client constructs at most one client, and all the instances
\* it has returned to the threads are the same one.
C26_SingleInstance ==
    /\ constructed <= 1
    /\ \A t \in Threads : \A u \in Threads :
          (thread[t].client # 0 /\ thread[u].client # 0)
              => thread[t].client = thread[u].client

====
